---- MODULE Spec2Model ----
(***************************************************************************)
(* Bulk metadata scaler: the row processor (process_single_row), the asset *)
(* resolver (find_assets_by_name) and the asset updater                    *)
(* (update_asset_metadata) of bulk_metadata_scaler_app/activities.py,      *)
(* against a small catalog.                                                *)
(*                                                                         *)
(* Python values are modelled as follows.  A str is a TLA+ string.  A dict *)
(* is a sequence of <<key, value>> pairs with distinct keys, in insertion  *)
(* order.  An Optional is <<>> (None) or <<v>>.  A set is a TLA+ set.      *)
(***************************************************************************)
EXTENDS Integers, Sequences, FiniteSets, TLC

\* ------------------------------------------------------------ python values

None == <<>>
Some(v) == <<v>>

Range(s) == {s[i] : i \in 1..Len(s)}

\* dict: keys, membership, lookup, item assignment (d[k] = v)
Keys(d) == {d[i][1] : i \in 1..Len(d)}
Has(d, k) == k \in Keys(d)
Get(d, k) == d[CHOOSE i \in 1..Len(d) : d[i][1] = k][2]
Put(d, k, v) ==
    IF Has(d, k)
    THEN LET i == CHOOSE j \in 1..Len(d) : d[j][1] = k
         IN  SubSeq(d, 1, i - 1) \o << <<k, v>> >> \o SubSeq(d, i + 1, Len(d))
    ELSE Append(d, <<k, v>>)
\* dict.get(k, default)
GetOr(d, k, default) == IF Has(d, k) THEN Get(d, k) ELSE default

\* str.strip(): leading and trailing blanks removed
RECURSIVE lstrip(_)
lstrip(s) == IF s # "" /\ Head(s) = " " THEN lstrip(Tail(s)) ELSE s
RECURSIVE rstrip(_)
rstrip(s) ==
    IF s # "" /\ SubSeq(s, Len(s), Len(s)) = " "
    THEN rstrip(SubSeq(s, 1, Len(s) - 1))
    ELSE s
strip(s) == rstrip(lstrip(s))

\* str.lower() on the letters the model uses
UpperLetters == "ABCDEFGHIJKLMNOPQRSTUVWXYZ"
LowerLetters == "abcdefghijklmnopqrstuvwxyz"
lowerChar(c) ==
    IF \E i \in 1..26 : SubSeq(UpperLetters, i, i) = c
    THEN LET i == CHOOSE j \in 1..26 : SubSeq(UpperLetters, j, j) = c
         IN  SubSeq(LowerLetters, i, i)
    ELSE c
RECURSIVE lower(_)
lower(s) == IF s = "" THEN "" ELSE lowerChar(Head(s)) \o lower(Tail(s))

\* str.split(sep) for a one-character separator: the parts, empty ones kept
RECURSIVE splitFrom(_, _, _)
splitFrom(s, sep, cur) ==
    IF s = "" THEN <<cur>>
    ELSE IF Head(s) = sep THEN <<cur>> \o splitFrom(Tail(s), sep, "")
    ELSE splitFrom(Tail(s), sep, cur \o Head(s))
split(s, sep) == splitFrom(s, sep, "")

\* [o.strip() for o in value.split(",") if o.strip()]
RECURSIVE stripNonEmpty(_)
stripNonEmpty(parts) ==
    IF parts = <<>> THEN <<>>
    ELSE (IF strip(Head(parts)) # "" THEN <<strip(Head(parts))>> ELSE <<>>)
         \o stripNonEmpty(Tail(parts))
owners_of(value) == stripNonEmpty(split(value, ","))

\* ---------------------------------------------------------------- constants

\* ASSET_TYPE_MAP: the type names that map to a pyatlan class
ASSET_TYPE_MAP == {"Column", "Table", "View"}

\* CERTIFICATE_STATUS_MAP: lower-case value -> CertificateStatus
CERTIFICATE_STATUS_MAP ==
    << <<"verified", "VERIFIED">>, <<"draft", "DRAFT">>,
       <<"deprecated", "DEPRECATED">> >>

STANDARD_FIELDS ==
    {"description", "user_owners", "group_owners", "certificate",
     "certificate_message"}

\* ProcessingStatus values
PENDING == "pending"
SUCCESS == "success"
PARTIAL == "partial"
FAILED == "failed"
SKIPPED == "skipped"
NOT_FOUND == "not_found"
ProcessingStatus == {PENDING, SUCCESS, PARTIAL, FAILED, SKIPPED, NOT_FOUND}

\* ------------------------------------------------------------------ catalog

\* The custom-metadata sets the tenant declares, each with its field names:
\* asset.get_custom_metadata raises for a set that is not declared, and
\* cma[field] = value raises KeyError for a field its set does not declare.
CM_DEFS ==
    << <<"Data Governance", {"Data Steward", "Review Date"}>>,
       <<"Ops", {"Tier"}>> >>

Entity(name, type_name, description, business_attributes) ==
    [name |-> name,
     type_name |-> type_name,
     qualified_name |-> "default/" \o name,
     description |-> description,
     owner_users |-> {},
     owner_groups |-> {},
     certificate_status |-> None,
     business_attributes |-> business_attributes]

\* The guids of the catalog, in the order a search returns them
GuidOrder == <<"g1", "g2", "g3">>
Guids == Range(GuidOrder)

\* The catalog at the start: three active assets named cust_id, two Columns
\* and a Table; g1 already carries owners and custom metadata in two sets.
InitialCatalog ==
    [g \in Guids |->
        CASE g = "g1" ->
               [Entity("cust_id", "Column", "old",
                       << <<"Data Governance",
                            << <<"Review Date", "2020">> >> >>,
                          <<"Ops", << <<"Tier", "1">> >> >> >>)
                  EXCEPT !.owner_users = {"zed"}, !.owner_groups = {"ops"}]
          [] g = "g2" -> Entity("cust_id", "Column", "", <<>>)
          [] g = "g3" -> Entity("cust_id", "Table", "", <<>>)]

\* asset_info dict built by find_assets_by_name for one search hit
AssetInfo(cat, g, type_name) ==
    [guid |-> g,
     qualified_name |-> cat[g].qualified_name,
     name |-> cat[g].name,
     type_name |-> type_name]

\* client.asset.search: the active assets of one type with exactly this name
SearchHits(cat, type_name, asset_name) ==
    LET Matches(g) == cat[g].type_name = type_name /\ cat[g].name = asset_name
    IN  SelectSeq(GuidOrder, Matches)

\* -------------------------------------------------- update_asset_metadata

\* asset.trim_to_required(): an updater that carries no field yet
trim_to_required(guid) ==
    [guid |-> guid,
     description |-> None,
     owner_users |-> None,
     owner_groups |-> None,
     certificate_status |-> None,
     business_attributes |-> <<>>]

\* lines 309-340: the standard fields, in the order the code tests them
ApplyDescription(d, sv) ==
    IF Has(sv, "description")
    THEN [to_update |-> [d.to_update EXCEPT
                           !.description = Some(Get(sv, "description"))],
          updated_fields |-> Append(d.updated_fields, "description")]
    ELSE d

ApplyUserOwners(d, sv) ==
    IF Has(sv, "user_owners") /\ owners_of(Get(sv, "user_owners")) # <<>>
    THEN [to_update |-> [d.to_update EXCEPT
                           !.owner_users =
                               Some(Range(owners_of(Get(sv, "user_owners"))))],
          updated_fields |-> Append(d.updated_fields, "user_owners")]
    ELSE d

ApplyGroupOwners(d, sv) ==
    IF Has(sv, "group_owners") /\ owners_of(Get(sv, "group_owners")) # <<>>
    THEN [to_update |-> [d.to_update EXCEPT
                           !.owner_groups =
                               Some(Range(owners_of(Get(sv, "group_owners"))))],
          updated_fields |-> Append(d.updated_fields, "group_owners")]
    ELSE d

\* ApplyCertificate listing the field before the value is looked up: an
\* unknown value leaves the status alone and is still reported
ApplyCertificate_ListingUnknown(d, sv) ==
    IF Has(sv, "certificate")
    THEN [to_update |->
              IF Has(CERTIFICATE_STATUS_MAP,
                     strip(lower(Get(sv, "certificate"))))
              THEN [d.to_update EXCEPT
                      !.certificate_status =
                          Some(Get(CERTIFICATE_STATUS_MAP,
                                   strip(lower(Get(sv, "certificate")))))]
              ELSE d.to_update,
          updated_fields |-> Append(d.updated_fields, "certificate")]
    ELSE d

ApplyCertificate(d, sv) ==
    IF Has(sv, "certificate")
       /\ Has(CERTIFICATE_STATUS_MAP, strip(lower(Get(sv, "certificate"))))
    THEN [to_update |-> [d.to_update EXCEPT
                           !.certificate_status =
                               Some(Get(CERTIFICATE_STATUS_MAP,
                                        strip(lower(Get(sv, "certificate")))))],
          updated_fields |-> Append(d.updated_fields, "certificate")]
    ELSE d

ApplyStandard(d, sv) ==
    ApplyCertificate(ApplyGroupOwners(ApplyUserOwners(ApplyDescription(d, sv),
                                                       sv), sv), sv)

\* lines 347-354: the fields of one set, written into its block cma; c is
\* [attrs, modified, updated_fields]
RECURSIVE SetFields(_, _, _, _)
SetFields(c, cm_set_name, declared, fields) ==
    IF fields = <<>> THEN c
    ELSE LET field_name == Head(fields)[1]
             value == Head(fields)[2]
             c2 == IF field_name \in declared
                   THEN [attrs |-> Put(c.attrs, field_name, value),
                         modified |-> TRUE,
                         updated_fields |->
                             Append(c.updated_fields,
                                    cm_set_name \o "::" \o field_name)]
                   ELSE c   \* KeyError: logged, the field is skipped
         IN  SetFields(c2, cm_set_name, declared, Tail(fields))

\* ApplyCmSet without the inner try of lines 348-354: the KeyError of one
\* field reaches the outer except and the whole set is skipped
ApplyCmSet_SkippingSetOnBadField(d, asset, cm_set_name, fields, unset) ==
    IF ~Has(CM_DEFS, cm_set_name) THEN d
    ELSE IF \E j \in 1..Len(fields) :
              fields[j][1] \notin Get(CM_DEFS, cm_set_name)
    THEN d
    ELSE LET c == SetFields([attrs |-> GetOr(asset.business_attributes,
                                             cm_set_name, <<>>),
                             modified |-> FALSE,
                             updated_fields |-> d.updated_fields],
                            cm_set_name, Get(CM_DEFS, cm_set_name), fields)
         IN  [to_update |->
                 IF c.modified /\ cm_set_name \notin unset
                 THEN [d.to_update EXCEPT
                         !.business_attributes = Put(@, cm_set_name, c.attrs)]
                 ELSE d.to_update,
              updated_fields |-> c.updated_fields]

\* lines 344-357: one pass of the loop over cm_values.items(); unset holds
\* the sets for which to_update.set_custom_metadata (line 355) raises: the
\* names of their fields were appended at line 350 before it, and the except
\* of line 356 only logs
ApplyCmSet(d, asset, cm_set_name, fields, unset) ==
    IF ~Has(CM_DEFS, cm_set_name)
    THEN d   \* get_custom_metadata raises: logged, the set is skipped
    ELSE LET c == SetFields([attrs |-> GetOr(asset.business_attributes,
                                             cm_set_name, <<>>),
                             modified |-> FALSE,
                             updated_fields |-> d.updated_fields],
                            cm_set_name, Get(CM_DEFS, cm_set_name), fields)
         IN  [to_update |->
                 IF c.modified /\ cm_set_name \notin unset
                 THEN [d.to_update EXCEPT
                         !.business_attributes = Put(@, cm_set_name, c.attrs)]
                 ELSE d.to_update,
              updated_fields |-> c.updated_fields]

RECURSIVE ApplyCustomMetadata(_, _, _, _)
ApplyCustomMetadata(d, asset, cm_values, unset) ==
    IF cm_values = <<>> THEN d
    ELSE ApplyCustomMetadata(
             ApplyCmSet(d, asset, Head(cm_values)[1], Head(cm_values)[2],
                        unset),
             asset, Tail(cm_values), unset)

\* lines 305-357: the updater and the list of field names, from the fetched
\* asset and the record
ComputeDiff(guid, asset, record, unset) ==
    ApplyCustomMetadata(
        ApplyStandard([to_update |-> trim_to_required(guid),
                       updated_fields |-> <<>>],
                      record.standard_values),
        asset, record.custom_metadata_values, unset)

\* the sets of the record that get_custom_metadata loads (line 346), in the
\* order of the record: set_custom_metadata is called once for each
LoadedSets(record) ==
    LET Declared(cm_set) == Has(CM_DEFS, cm_set[1])
        loaded == SelectSeq(record.custom_metadata_values, Declared)
    IN  [j \in 1..Len(loaded) |-> loaded[j][1]]

\* the set_custom_metadata calls of one diff, as the log records them
SetCalls(record, unset) ==
    LET loaded == LoadedSets(record)
    IN  [j \in 1..Len(loaded) |->
           <<"set_custom_metadata", loaded[j],
             IF loaded[j] \in unset THEN "raise" ELSE "ok">>]

\* save appending the new description to the old one
save_AppendingDescription(entity, to_update) ==
    [entity EXCEPT
       !.description = IF to_update.description = None THEN @
                       ELSE @ \o to_update.description[1],
       !.owner_users = IF to_update.owner_users = None THEN @
                       ELSE to_update.owner_users[1],
       !.owner_groups = IF to_update.owner_groups = None THEN @
                        ELSE to_update.owner_groups[1],
       !.certificate_status =
           IF to_update.certificate_status = None THEN @
           ELSE to_update.certificate_status]

\* save adding the owners the updater carries to the ones the entity has
save_AddingOwners(entity, to_update) ==
    [entity EXCEPT
       !.description = IF to_update.description = None THEN @
                       ELSE to_update.description[1],
       !.owner_users = IF to_update.owner_users = None THEN @
                       ELSE @ \cup to_update.owner_users[1],
       !.owner_groups = IF to_update.owner_groups = None THEN @
                        ELSE @ \cup to_update.owner_groups[1],
       !.certificate_status =
           IF to_update.certificate_status = None THEN @
           ELSE to_update.certificate_status]

\* client.asset.save(to_update): the attributes the updater carries replace
\* the entity's; everything else, custom metadata included, is left alone
OrElse(opt, old) == IF opt = None THEN old ELSE opt[1]
save(entity, to_update) ==
    [entity EXCEPT
       !.description = OrElse(to_update.description, @),
       !.owner_users = OrElse(to_update.owner_users, @),
       !.owner_groups = OrElse(to_update.owner_groups, @),
       !.certificate_status =
           IF to_update.certificate_status = None THEN @
           ELSE to_update.certificate_status]

\* client.asset.save_merging_cm(to_update): as save, and every attribute of
\* every block the updater carries is merged into the entity's blocks
RECURSIVE MergeAttrs(_, _)
MergeAttrs(block, attrs) ==
    IF attrs = <<>> THEN block
    ELSE MergeAttrs(Put(block, Head(attrs)[1], Head(attrs)[2]), Tail(attrs))
RECURSIVE MergeBlocks(_, _)
MergeBlocks(ba, staged) ==
    IF staged = <<>> THEN ba
    ELSE MergeBlocks(
             Put(ba, Head(staged)[1],
                 MergeAttrs(GetOr(ba, Head(staged)[1], <<>>), Head(staged)[2])),
             Tail(staged))
\* save_merging_cm replacing the custom metadata of the entity by the blocks
\* the updater carries (what save_replacing_cm does)
save_merging_cm_Replacing(entity, to_update) ==
    [save(entity, to_update) EXCEPT
       !.business_attributes = to_update.business_attributes]

save_merging_cm(entity, to_update) ==
    [save(entity, to_update) EXCEPT
       !.business_attributes = MergeBlocks(@, to_update.business_attributes)]

\* lines 369-372: which persist call the code makes
PersistCall(record) ==
    IF record.custom_metadata_values # <<>> THEN "save_merging_cm" ELSE "save"
Persisted(entity, to_update, record) ==
    IF PersistCall(record) = "save_merging_cm"
    THEN save_merging_cm(entity, to_update)
    ELSE save(entity, to_update)

\* -------------------------------------------------------------------- state

VARIABLES
    catalog,    \* guid -> entity: the remote catalog
    client,     \* self._client is not None
    pc,         \* where the running activity stands; "idle" between calls
    op,         \* the activity called and its arguments
    row,        \* locals of process_single_row
    find,       \* locals of find_assets_by_name
    upd,        \* locals of update_asset_metadata
    ret,        \* how the activity ended: returned a value, or raised
    calls,      \* the calls made to the catalog client during this activity
    lastCall,   \* the call that ended just before this one, if it was an
                \* update that succeeded outside preview: its guid, its
                \* record and the entity as it left it
    parse,      \* a call of _classify_columns: its arguments and how it ended
    run         \* locals of BulkMetadataEnrichmentWorkflow.run

vars == <<catalog, client, pc, op, row, find, upd, ret, calls, lastCall,
         parse, run>>

Returned(v) == Some([kind |-> "return", value |-> v])
Raised(msg) == Some([kind |-> "raise", value |-> msg])

\* str(e) of the exceptions the collaborators raise
ClientError == "client unavailable"
FetchError == "fetch failed"
PersistError == "persist failed"

Record(row_index, asset_name, standard_values, custom_metadata_values) ==
    [row_index |-> row_index,
     asset_name |-> asset_name,
     standard_values |-> standard_values,
     custom_metadata_values |-> custom_metadata_values]

\* lines 286-293
NewUpdateResult(asset_info) ==
    [guid |-> asset_info.guid,
     qualified_name |-> asset_info.qualified_name,
     name |-> asset_info.name,
     success |-> FALSE,
     error |-> None,
     updated_fields |-> <<>>]

\* the frame of one update_asset_metadata call, before line 281
UpdateFrame(asset_info, record, dry_run) ==
    Some([asset_info |-> asset_info,
          record |-> record,
          dry_run |-> dry_run,
          result |-> NewUpdateResult(asset_info),
          asset |-> None,
          diff |-> None,
          unset |-> {}])

\* lines 406-413
NewRowResult(record) ==
    [row_index |-> record.row_index,
     asset_name |-> record.asset_name,
     status |-> PENDING,
     assets_found |-> 0,
     assets_updated |-> 0,
     error |-> None]

\* has_values testing "is not None" where the code tests truth: the empty
\* dicts of a record without values then count as values
has_values_NotNone(record) == TRUE

\* has_values counting only the values update_asset_metadata writes: a
\* certificate_message alone is then no value
has_values_WrittenOnly(record) ==
    \/ Keys(record.standard_values) \ {"certificate_message"} # {}
    \/ record.custom_metadata_values # <<>>

\* lines 415-418
has_values(record) ==
    record.standard_values # <<>> \/ record.custom_metadata_values # <<>>

\* RowOutcome with the number of successes in the PARTIAL message
RowOutcome_SuccessCountInMessage(result, success_count, fail_count, n) ==
    LET r == [result EXCEPT !.assets_updated = success_count]
    IN  IF fail_count = 0
        THEN [r EXCEPT !.status = SUCCESS]
        ELSE IF success_count = 0
        THEN [r EXCEPT !.status = FAILED,
                       !.error = Some("All " \o ToString(fail_count)
                                      \o " updates failed")]
        ELSE [r EXCEPT !.status = PARTIAL,
                       !.error = Some(ToString(success_count) \o "/"
                                      \o ToString(n) \o " updates failed")]

\* RowOutcome without the branch for success_count == 0
RowOutcome_NoAllFailedBranch(result, success_count, fail_count, n) ==
    LET r == [result EXCEPT !.assets_updated = success_count]
    IN  IF fail_count = 0
        THEN [r EXCEPT !.status = SUCCESS]
        ELSE [r EXCEPT !.status = PARTIAL,
                       !.error = Some(ToString(fail_count) \o "/" \o ToString(n)
                                      \o " updates failed")]

\* RowOutcome without the assignment of line 453
RowOutcome_UpdatedNotSet(result, success_count, fail_count, n) ==
    IF fail_count = 0
    THEN [result EXCEPT !.status = SUCCESS]
    ELSE IF success_count = 0
    THEN [result EXCEPT !.status = FAILED,
                        !.error = Some("All " \o ToString(fail_count)
                                       \o " updates failed")]
    ELSE [result EXCEPT !.status = PARTIAL,
                        !.error = Some(ToString(fail_count) \o "/"
                                       \o ToString(n) \o " updates failed")]

\* RowOutcome whose last branch sets the error and forgets the status
RowOutcome_PartialStatusNotSet(result, success_count, fail_count, n) ==
    LET r == [result EXCEPT !.assets_updated = success_count]
    IN  IF fail_count = 0
        THEN [r EXCEPT !.status = SUCCESS]
        ELSE IF success_count = 0
        THEN [r EXCEPT !.status = FAILED,
                       !.error = Some("All " \o ToString(fail_count)
                                      \o " updates failed")]
        ELSE [r EXCEPT !.error = Some(ToString(fail_count) \o "/"
                                      \o ToString(n) \o " updates failed")]

\* lines 453-462: the row's result once every asset has been tried
RowOutcome(result, success_count, fail_count, n) ==
    LET r == [result EXCEPT !.assets_updated = success_count]
    IN  IF fail_count = 0
        THEN [r EXCEPT !.status = SUCCESS]
        ELSE IF success_count = 0
        THEN [r EXCEPT !.status = FAILED,
                       !.error = Some("All " \o ToString(fail_count)
                                      \o " updates failed")]
        ELSE [r EXCEPT !.status = PARTIAL,
                       !.error = Some(ToString(fail_count) \o "/" \o ToString(n)
                                      \o " updates failed")]

Init ==
    /\ catalog = InitialCatalog
    /\ client = FALSE
    /\ pc = "idle"
    /\ op = None
    /\ row = None
    /\ find = None
    /\ upd = None
    /\ ret = None
    /\ calls = <<>>
    /\ lastCall = None
    /\ parse = None
    /\ run = None

\* ------------------------------------------------------------------ inputs

\* the longest asset_types list an activity is called with
MaxAssetTypes == 2

\* the type names a caller asks for: two known ones and an unknown one
TypeNames == {"Column", "Table", "Bogus"}

RECURSIVE SeqsUpTo(_, _)
SeqsUpTo(S, n) ==
    IF n = 0 THEN {<<>>}
    ELSE LET shorter == SeqsUpTo(S, n - 1)
         IN  shorter \cup {Append(q, x) : q \in shorter, x \in S}
AssetTypeLists == SeqsUpTo(TypeNames, MaxAssetTypes)

\* the records process_single_row is called with
RowRecords ==
    { Record(0, "cust_id", <<>>, <<>>),
      Record(1, "cust_id", << <<"description", "Unique id">> >>, <<>>),
      Record(2, "nobody", << <<"description", "Unique id">> >>, <<>>),
      Record(3, "cust_id", << <<"certificate_message", "reviewed">> >>, <<>>),
      Record(4, "cust_id", <<>>,
             << <<"Unknown", << <<"f", "v">> >> >> >>) }

\* the records update_asset_metadata is called with directly
UpdateRecords ==
    { Record(0, "cust_id", <<>>, <<>>),
      Record(1, "cust_id", << <<"description", "Unique id">> >>, <<>>),
      Record(2, "cust_id",
             << <<"user_owners", "alice, bob,,">>,
                <<"certificate", " Verified">> >>, <<>>),
      Record(3, "cust_id",
             << <<"group_owners", " , ">>, <<"certificate", "bogus">> >>,
             <<>>),
      Record(4, "cust_id", << <<"description", "Unique id">> >>,
             << <<"Data Governance",
                  << <<"Data Steward", "alice">>, <<"Nope", "x">> >> >> >>),
      Record(5, "cust_id", <<>>,
             << <<"Unknown", << <<"f", "v">> >> >>,
                <<"Ops", << <<"Tier", "2">> >> >> >>),
      Record(6, "cust_id",
             << <<"description", "Unique id">>, <<"certificate", "bogus">> >>,
             <<>>),
      Record(7, "cust_id",
             << <<"user_owners", " , ">>, <<"group_owners", "eng, data ,">> >>,
             <<>>) }

\* the assets update_asset_metadata is called on directly: one the catalog
\* holds and one it does not
UpdateAssets ==
    { AssetInfo(InitialCatalog, "g1", "Column"),
      [guid |-> "g9", qualified_name |-> "default/gone", name |-> "gone",
       type_name |-> "Column"] }

\* ----------------------------------------------------- update_asset_metadata

\* AfterDiff without the test of dry_run
AfterDiff_IgnoringDryRun(dry_run, updated_fields) ==
    IF updated_fields = <<>> THEN "noop" ELSE "persist"

\* AfterDiff without the test of lines 359-361: an empty diff is saved too
AfterDiff_NoEmptyTest(dry_run, updated_fields) ==
    IF dry_run THEN "preview" ELSE "persist"

\* lines 359-373: what follows the diff: return at once when it is empty,
\* return it without saving in a dry run, save it otherwise
AfterDiff(dry_run, updated_fields) ==
    IF updated_fields = <<>> THEN "noop"
    ELSE IF dry_run THEN "preview"
    ELSE "persist"

\* UpdateEnds leaving the loop of line 440 at the first update that does not
\* succeed: the assets after it are not tried
UpdateEnds_StopAtFailure(frame, outcome, log) ==
    LET ok == outcome.kind = "return" /\ outcome.value.success
        mark == <<"updated", frame.asset_info.guid,
                  IF outcome.kind = "raise" THEN "raised"
                  ELSE IF ok THEN "success" ELSE "failure">>
    IN  /\ calls' = Append(log, mark)
        /\ IF op[1].name = "update_asset_metadata"
           THEN /\ pc' = "done"
                /\ ret' = Some(outcome)
                /\ upd' = Some(frame)
                /\ row' = row
           ELSE LET r == row[1]
                    s2 == r.success_count + (IF ok THEN 1 ELSE 0)
                    f2 == r.fail_count + (IF ok THEN 0 ELSE 1)
                    counted == [r EXCEPT !.success_count = s2,
                                         !.fail_count = f2]
                IN  IF r.i < Len(r.assets) /\ ok
                    THEN /\ pc' = "upd_client"
                         /\ ret' = ret
                         /\ upd' = UpdateFrame(r.assets[r.i + 1], r.record,
                                               r.dry_run)
                         /\ row' = Some([counted EXCEPT !.i = r.i + 1])
                    ELSE LET result == RowOutcome(r.result, s2, f2,
                                                  Len(r.assets))
                         IN  /\ pc' = "done"
                             /\ ret' = Returned(result)
                             /\ upd' = Some(frame)
                             /\ row' = Some([counted EXCEPT !.result = result])

\* how one update_asset_metadata call ends, to its caller: the direct caller
\* gets the outcome; process_single_row (lines 440-464) counts it and either
\* goes on to the next asset or derives the row's status
UpdateEnds(frame, outcome, log) ==
    LET ok == outcome.kind = "return" /\ outcome.value.success
        mark == <<"updated", frame.asset_info.guid,
                  IF outcome.kind = "raise" THEN "raised"
                  ELSE IF ok THEN "success" ELSE "failure">>
    IN  /\ calls' = Append(log, mark)
        /\ IF op[1].name = "update_asset_metadata"
           THEN /\ pc' = "done"
                /\ ret' = Some(outcome)
                /\ upd' = Some(frame)
                /\ row' = row
           ELSE LET r == row[1]
                    s2 == r.success_count + (IF ok THEN 1 ELSE 0)
                    f2 == r.fail_count + (IF ok THEN 0 ELSE 1)
                    counted == [r EXCEPT !.success_count = s2,
                                         !.fail_count = f2]
                IN  IF r.i < Len(r.assets)
                    THEN /\ pc' = "upd_client"
                         /\ ret' = ret
                         /\ upd' = UpdateFrame(r.assets[r.i + 1], r.record,
                                               r.dry_run)
                         /\ row' = Some([counted EXCEPT !.i = r.i + 1])
                    ELSE LET result == RowOutcome(r.result, s2, f2,
                                                  Len(r.assets))
                         IN  /\ pc' = "done"
                             /\ ret' = Returned(result)
                             /\ upd' = Some(frame)
                             /\ row' = Some([counted EXCEPT !.result = result])

\* line 281 (lines 64-68): the client is created on first use, and creating
\* it may raise; the call is outside the try of line 295
UpdGetClient ==
    /\ pc = "upd_client"
    /\ IF client
       THEN /\ pc' = "upd_fetch"
            /\ UNCHANGED <<client, row, upd, ret, calls>>
       ELSE \E made \in BOOLEAN :
              IF made
              THEN /\ client' = TRUE
                   /\ pc' = "upd_fetch"
                   /\ calls' = Append(calls, <<"client", "ok">>)
                   /\ UNCHANGED <<row, upd, ret>>
              ELSE /\ client' = client
                   /\ UpdateEnds(upd[1],
                                 [kind |-> "raise", value |-> ClientError],
                                 Append(calls, <<"client", "raise">>))
    /\ UNCHANGED <<parse, run, catalog, op, find, lastCall>>

\* the outcome for an absent asset without the test of lines 301-303: the
\* call goes on with nothing to write and reports success
AssetMissing_AsNothingToDo(result) ==
    [result EXCEPT !.success = TRUE]

\* lines 301-303: get_by_guid returned no asset
AssetMissing(result) ==
    [result EXCEPT !.error = Some("Asset not found")]

\* lines 295-361 and 364-367, 375-376: fetch the asset, compute the diff, and
\* return unless there is something to persist
UpdFetch ==
    /\ pc = "upd_fetch"
    /\ LET u == upd[1]
           guid == u.asset_info.guid
       IN  \E got \in {"ok", "absent", "raise"},
              unset \in SUBSET Range(LoadedSets(u.record)) :
             /\ got = "ok" => guid \in Guids
             /\ got # "ok" => unset = {}
             /\ LET log == Append(calls, <<"fetch", guid, got>>)
                          \o (IF got = "ok" THEN SetCalls(u.record, unset)
                              ELSE <<>>)
                IN  CASE got = "raise" ->
                           UpdateEnds(u,
                               [kind |-> "return",
                                value |-> [u.result EXCEPT
                                             !.error = Some(FetchError)]],
                               log)
                      [] got = "absent" ->
                           UpdateEnds(u,
                               [kind |-> "return",
                                value |-> AssetMissing(u.result)],
                               log)
                      [] got = "ok" ->
                           LET asset == catalog[guid]
                               d == ComputeDiff(guid, asset, u.record, unset)
                               f == [u EXCEPT !.asset = Some(asset),
                                              !.diff = Some(d),
                                              !.unset = unset]
                               next == AfterDiff(u.dry_run, d.updated_fields)
                           IN  IF next = "noop"
                               THEN UpdateEnds(f,
                                        [kind |-> "return",
                                         value |-> [u.result EXCEPT
                                                      !.success = TRUE]],
                                        log)
                               ELSE IF next = "preview"
                               THEN UpdateEnds(f,
                                        [kind |-> "return",
                                         value |-> [u.result EXCEPT
                                                      !.success = TRUE,
                                                      !.updated_fields =
                                                          d.updated_fields]],
                                        log)
                               ELSE /\ pc' = "upd_persist"
                                    /\ upd' = Some(f)
                                    /\ calls' = log
                                    /\ UNCHANGED <<row, ret>>
    /\ UNCHANGED <<parse, run, catalog, client, op, find, lastCall>>

\* lines 368-382: persist the updater; a failure is reported in the result
UpdPersist ==
    /\ pc = "upd_persist"
    /\ LET u == upd[1]
           guid == u.asset_info.guid
           d == u.diff[1]
       IN  \E got \in {"ack", "raise"} :
             LET log == Append(calls, <<PersistCall(u.record), guid, got>>)
             IN  IF got = "ack"
                 THEN /\ catalog' = [catalog EXCEPT
                                       ![guid] = Persisted(@, d.to_update,
                                                           u.record)]
                      /\ UpdateEnds(u,
                             [kind |-> "return",
                              value |-> [u.result EXCEPT
                                           !.success = TRUE,
                                           !.updated_fields = d.updated_fields]],
                             log)
                 ELSE /\ catalog' = catalog
                      /\ UpdateEnds(u,
                             [kind |-> "return",
                              value |-> [u.result EXCEPT
                                           !.error = Some(PersistError)]],
                             log)
    /\ UNCHANGED <<parse, run, client, op, find, lastCall>>

\* -------------------------------------------------------- find_assets_by_name

\* FindRaises with the exception swallowed: the row ends as if nothing matched
FindRaises_AsNotFound(msg, log) ==
    LET r == row[1]
        result == [r.result EXCEPT !.status = NOT_FOUND]
    IN  /\ pc' = "done"
        /\ calls' = log
        /\ row' = Some([r EXCEPT !.result = result])
        /\ ret' = Returned(result)
        /\ upd' = upd

\* how find_assets_by_name ends, to process_single_row (lines 424-434)
FindRaises(msg, log) ==
    LET r == row[1]
        result == [r.result EXCEPT !.status = FAILED,
                                   !.error = Some("Search failed: " \o msg)]
    IN  /\ pc' = "done"
        /\ calls' = log
        /\ row' = Some([r EXCEPT !.result = result])
        /\ ret' = Returned(result)
        /\ upd' = upd

\* FindReturns without the early return of lines 432-434: with no asset the
\* loop of line 440 does nothing and the row falls through to lines 453-464
FindReturns_NoEarlyReturn(assets) ==
    LET r == row[1]
        found == [r.result EXCEPT !.assets_found = Len(assets)]
    IN  IF assets = <<>>
        THEN LET result == RowOutcome(found, 0, 0, 0)
             IN  /\ pc' = "done"
                 /\ row' = Some([r EXCEPT !.result = result])
                 /\ ret' = Returned(result)
                 /\ upd' = upd
        ELSE /\ pc' = "upd_client"
             /\ row' = Some([r EXCEPT !.result = found, !.assets = assets,
                                      !.i = 1])
             /\ ret' = ret
             /\ upd' = UpdateFrame(assets[1], r.record, r.dry_run)

\* FindReturns without the assignment of line 426: assets_found keeps its
\* initial 0
FindReturns_FoundNotSet(assets) ==
    LET r == row[1]
    IN  IF assets = <<>>
        THEN LET result == [r.result EXCEPT !.status = NOT_FOUND]
             IN  /\ pc' = "done"
                 /\ row' = Some([r EXCEPT !.result = result])
                 /\ ret' = Returned(result)
                 /\ upd' = upd
        ELSE /\ pc' = "upd_client"
             /\ row' = Some([r EXCEPT !.assets = assets, !.i = 1])
             /\ ret' = ret
             /\ upd' = UpdateFrame(assets[1], r.record, r.dry_run)

\* lines 426-440: find_assets_by_name returned
FindReturns(assets) ==
    LET r == row[1]
        found == [r.result EXCEPT !.assets_found = Len(assets)]
    IN  IF assets = <<>>
        THEN LET result == [found EXCEPT !.status = NOT_FOUND]
             IN  /\ pc' = "done"
                 /\ row' = Some([r EXCEPT !.result = result])
                 /\ ret' = Returned(result)
                 /\ upd' = upd
        ELSE /\ pc' = "upd_client"
             /\ row' = Some([r EXCEPT !.result = found, !.assets = assets,
                                      !.i = 1])
             /\ ret' = ret
             /\ upd' = UpdateFrame(assets[1], r.record, r.dry_run)

\* line 225 (lines 64-68): outside any try of find_assets_by_name
FindGetClient ==
    /\ pc = "find_client"
    /\ IF client
       THEN /\ pc' = "find_search"
            /\ UNCHANGED <<client, row, upd, ret, calls>>
       ELSE \E made \in BOOLEAN :
              IF made
              THEN /\ client' = TRUE
                   /\ pc' = "find_search"
                   /\ calls' = Append(calls, <<"client", "ok">>)
                   /\ UNCHANGED <<row, upd, ret>>
              ELSE /\ client' = client
                   /\ FindRaises(ClientError,
                                 Append(calls, <<"client", "raise">>))
    /\ UNCHANGED <<parse, run, catalog, op, find, lastCall>>

\* the hits of one search as lines 248-254 record them: each tagged with the
\* type it was searched under
TaggedHits(cat, type_name, asset_name) ==
    LET hits == SearchHits(cat, type_name, asset_name)
    IN  [j \in 1..Len(hits) |-> AssetInfo(cat, hits[j], type_name)]

\* TypeSearched with an except that leaves the loop: a failing search ends
\* the resolution with what was found so far
TypeSearched_AbortOnError(f, type_name, got, cat) ==
    IF got = "raise"
    THEN [f EXCEPT !.k = Len(f.asset_types) + 1]
    ELSE [f EXCEPT !.k = f.k + 1,
                   !.all_assets = @ \o TaggedHits(cat, type_name, f.asset_name)]

\* TypeSearched keeping one entry per guid: an asset already in all_assets
\* is not appended again
TypeSearched_Deduplicating(f, type_name, got, cat) ==
    LET seen == {f.all_assets[j].guid : j \in 1..Len(f.all_assets)}
        fresh(a) == a.guid \notin seen
    IN  [f EXCEPT !.k = f.k + 1,
                  !.all_assets =
                      IF got = "raise" THEN @
                      ELSE @ \o SelectSeq(
                               TaggedHits(cat, type_name, f.asset_name),
                               fresh)]

\* lines 234-257: the search of one known type; its failure is logged and the
\* loop goes on
TypeSearched(f, type_name, got, cat) ==
    [f EXCEPT !.k = f.k + 1,
              !.all_assets =
                  IF got = "raise" THEN @
                  ELSE @ \o TaggedHits(cat, type_name, f.asset_name)]

\* lines 228-257: one pass of the loop over asset_types
FindSearchType ==
    /\ pc = "find_search"
    /\ LET f == find[1]
       IN  /\ f.k <= Len(f.asset_types)
           /\ LET type_name == f.asset_types[f.k]
              IN  IF type_name \notin ASSET_TYPE_MAP
                  THEN /\ find' = Some([f EXCEPT !.k = f.k + 1])
                       /\ calls' = calls
                  ELSE \E got \in {"ok", "raise"} :
                         /\ calls' = Append(calls, <<"search", type_name, got>>)
                         /\ find' = Some(TypeSearched(f, type_name, got,
                                                      catalog))
    /\ UNCHANGED <<parse, run, catalog, client, pc, op, row, upd, ret,
                 lastCall>>

\* lines 259-260, then 426-434 of the caller
FindReturn ==
    /\ pc = "find_search"
    /\ find[1].k > Len(find[1].asset_types)
    /\ FindReturns(find[1].all_assets)
    /\ UNCHANGED <<parse, run, catalog, client, op, find, calls, lastCall>>

\* the call that has just ended, if it was an update that succeeded outside
\* preview on an entity of the catalog
EndedUpdate ==
    IF /\ pc = "done"
       /\ op[1].name = "update_asset_metadata"
       /\ ~op[1].dry_run
       /\ ret[1].kind = "return"
       /\ ret[1].value.success
       /\ op[1].asset_info.guid \in Guids
    THEN Some([guid |-> op[1].asset_info.guid,
               record |-> op[1].record,
               unset |-> upd[1].unset,
               after |-> catalog[op[1].asset_info.guid]])
    ELSE None

\* the activity's outcome is handed to its caller; the instance, with the
\* client it may hold, waits for the next call
Return ==
    /\ pc = "done"
    /\ pc' = "idle"
    /\ lastCall' = EndedUpdate
    /\ op' = None
    /\ row' = None
    /\ find' = None
    /\ upd' = None
    /\ ret' = None
    /\ calls' = <<>>
    /\ UNCHANGED <<parse, run, catalog, client>>

\* --------------------------------------------------------- process_single_row

\* lines 403-421: the activity is entered with its arguments and runs up to
\* the resolution
ProcessSingleRowCalled(record, asset_types, dry_run) ==
    LET frame == [record |-> record,
                  asset_types |-> asset_types,
                  dry_run |-> dry_run,
                  result |-> NewRowResult(record),
                  assets |-> <<>>,
                  i |-> 0,
                  success_count |-> 0,
                  fail_count |-> 0]
    IN  /\ op' = Some([name |-> "process_single_row",
                       record |-> record,
                       asset_types |-> asset_types,
                       dry_run |-> dry_run])
        /\ IF ~has_values(record)
           THEN LET result == [frame.result EXCEPT !.status = SKIPPED]
                IN  /\ pc' = "done"
                    /\ row' = Some([frame EXCEPT !.result = result])
                    /\ find' = None
                    /\ ret' = Returned(result)
           ELSE /\ pc' = "find_client"
                /\ row' = Some(frame)
                /\ find' = Some([asset_name |-> record.asset_name,
                                 asset_types |-> asset_types,
                                 k |-> 1,
                                 all_assets |-> <<>>])
                /\ ret' = None
        /\ upd' = None
        /\ calls' = <<>>

\* a call of the activity by any caller
CallProcessSingleRow ==
    /\ pc = "idle"
    /\ \E record \in RowRecords, asset_types \in AssetTypeLists,
          dry_run \in BOOLEAN :
         ProcessSingleRowCalled(record, asset_types, dry_run)
    /\ UNCHANGED <<parse, run, catalog, client, lastCall>>

Next ==
    \/ CallProcessSingleRow
    \/ FindGetClient
    \/ FindSearchType
    \/ FindReturn
    \/ UpdGetClient
    \/ UpdFetch
    \/ UpdPersist
    \/ Return

Spec == Init /\ [][Next]_vars

\* ------------------------------------- update_asset_metadata, called directly

\* a call of the activity, before line 281
CallUpdateAssetMetadata ==
    /\ pc = "idle"
    /\ \E asset_info \in UpdateAssets, record \in UpdateRecords,
          dry_run \in BOOLEAN :
         /\ op' = Some([name |-> "update_asset_metadata",
                        asset_info |-> asset_info,
                        record |-> record,
                        dry_run |-> dry_run])
         /\ upd' = UpdateFrame(asset_info, record, dry_run)
    /\ pc' = "upd_client"
    /\ row' = None
    /\ find' = None
    /\ ret' = None
    /\ calls' = <<>>
    /\ UNCHANGED <<parse, run, catalog, client, lastCall>>

NextUpdate ==
    \/ CallUpdateAssetMetadata
    \/ UpdGetClient
    \/ UpdFetch
    \/ UpdPersist
    \/ Return

SpecUpdate == Init /\ [][NextUpdate]_vars

\* ======================================================================
\* Properties of process_single_row (specification Spec)
\* ======================================================================

\* a process_single_row call has ended, and the outcome it returned
RowDone == pc = "done" /\ op[1].name = "process_single_row"
RowResult == ret[1].value

\* what the call did, read from the log of this call
CallsOf(kinds) == {i \in 1..Len(calls) : calls[i][1] \in kinds}
UpdaterCalls == CallsOf({"fetch", "save", "save_merging_cm", "updated"})
SearchCalls == CallsOf({"search"})
Succeeded ==
    Cardinality({i \in CallsOf({"updated"}) : calls[i][3] = "success"})
Failed ==
    Cardinality({i \in CallsOf({"updated"}) : calls[i][3] # "success"})
ResolverRaised == \E i \in CallsOf({"client"}) : calls[i][2] = "raise"
\* the resolver returned, and what it returned
Resolved == find # None /\ ~ResolverRaised /\ find[1].k > Len(find[1].asset_types)
Matches == find[1].all_assets

EndsWith(str, suffix) ==
    /\ Len(str) >= Len(suffix)
    /\ SubSeq(str, Len(str) - Len(suffix) + 1, Len(str)) = suffix

\* C1: a row with n >= 2 matches of which s >= 1 updates succeed and f >= 1
\* fail ends PARTIAL, and its error is exactly "{f}/{n} updates failed".
C1_PartialRow ==
    (RowDone /\ Resolved /\ Len(Matches) >= 2
       /\ Succeeded >= 1 /\ Failed >= 1)
    => /\ Succeeded + Failed = Len(Matches)
       /\ RowResult.status = PARTIAL
       /\ RowResult.error =
            Some(ToString(Failed) \o "/" \o ToString(Len(Matches))
                 \o " updates failed")

C1_Witness ==
    /\ RowDone /\ Resolved /\ Len(Matches) = 3
    /\ Succeeded = 1 /\ Failed = 2
    /\ RowResult.error = Some("2/3 updates failed")

\* C2: a row with n >= 1 matches whose updates all fail ends FAILED with
\* assets_updated = 0, and its error states "{f} updates failed", f the
\* number of failed matches.
C2_AllFailedRow ==
    (RowDone /\ Resolved /\ Len(Matches) >= 1 /\ Succeeded = 0)
    => /\ Failed = Len(Matches)
       /\ RowResult.status = FAILED
       /\ RowResult.assets_updated = 0
       /\ RowResult.error # None
       /\ EndsWith(RowResult.error[1], ToString(Failed) \o " updates failed")
       /\ RowResult.error[1] = "All " \o ToString(Failed) \o " updates failed"

C2_Witness ==
    /\ RowDone /\ Resolved /\ Len(Matches) = 3
    /\ Succeeded = 0 /\ Failed = 3
    /\ RowResult.error = Some("All 3 updates failed")

\* C3: a row with n >= 1 matches none of whose updates fails ends SUCCESS
\* with no error and assets_updated = assets_found = n.
C3_SuccessRow ==
    (RowDone /\ Resolved /\ Len(Matches) >= 1 /\ Failed = 0)
    => /\ RowResult.status = SUCCESS
       /\ RowResult.error = None
       /\ RowResult.assets_updated = Len(Matches)
       /\ RowResult.assets_found = Len(Matches)
       /\ Succeeded = Len(Matches)

C3_Witness ==
    /\ RowDone /\ Resolved /\ Len(Matches) = 3
    /\ Failed = 0 /\ Succeeded = 3
    /\ RowResult.status = SUCCESS

\* C4: a row that carries a value and whose resolution returns no match ends
\* NOT_FOUND with assets_found = 0 and no error, and the updater is not
\* invoked for it.
C4_NotFoundRow ==
    (RowDone /\ has_values(op[1].record) /\ Resolved /\ Matches = <<>>)
    => /\ RowResult.status = NOT_FOUND
       /\ RowResult.assets_found = 0
       /\ RowResult.error = None
       /\ UpdaterCalls = {}

\* no match although searches were made, one of them failing
C4_Witness ==
    /\ RowDone /\ has_values(op[1].record) /\ Resolved /\ Matches = <<>>
    /\ \E i \in SearchCalls : calls[i][3] = "raise"
    /\ \E i \in SearchCalls : calls[i][3] = "ok"
    /\ RowResult.status = NOT_FOUND

\* C5: a row with no standard value and no custom-metadata value ends
\* SKIPPED, and no call at all is made to the catalog for it.
C5_SkippedRow ==
    (RowDone /\ op[1].record.standard_values = <<>>
             /\ op[1].record.custom_metadata_values = <<>>)
    => /\ RowResult.status = SKIPPED
       /\ calls = <<>>
       /\ find = None
       /\ upd = None

C5_Witness ==
    /\ RowDone
    /\ op[1].record = Record(0, "cust_id", <<>>, <<>>)
    /\ op[1].asset_types = <<"Column", "Table">>
    /\ RowResult.status = SKIPPED

\* C6: when the resolver itself raises, the row ends FAILED with an error
\* and the updater is not invoked; when the resolver returns no match, the
\* row ends NOT_FOUND with no error.
C6_ResolverRaisedRow ==
    /\ (RowDone /\ ResolverRaised)
       => /\ RowResult.status = FAILED
          /\ RowResult.error = Some("Search failed: " \o ClientError)
          /\ UpdaterCalls = {}
    /\ (RowDone /\ Resolved /\ Matches = <<>>)
       => /\ RowResult.status = NOT_FOUND
          /\ RowResult.error = None

C6_Witness ==
    /\ RowDone /\ ResolverRaised
    /\ RowResult.status = FAILED
    /\ RowResult.assets_found = 0

\* C7: every outcome process_single_row returns has one of the five final
\* statuses; PENDING is never returned.
C7_TerminalStatus ==
    /\ RowDone => /\ ret # None
                  /\ ret[1].kind = "return"
                  /\ RowResult.status
                       \in {SKIPPED, FAILED, NOT_FOUND, SUCCESS, PARTIAL}
                  /\ RowResult.status # PENDING
    /\ (op # None /\ op[1].name = "process_single_row" /\ pc # "done")
       => ret = None

\* a returned outcome of a row whose two updates both failed
C7_Witness ==
    /\ RowDone /\ ret[1].kind = "return"
    /\ RowResult.status = FAILED
    /\ RowResult.assets_found = 2

\* ======================================================================
\* Properties of update_asset_metadata (specification SpecUpdate)
\* ======================================================================

\* an update_asset_metadata call, and one that has ended
UpdateCall == op # None /\ op[1].name = "update_asset_metadata"
UpdateDone == pc = "done" /\ UpdateCall
PersistCalls == CallsOf({"save", "save_merging_cm"})
Fetched == \E i \in CallsOf({"fetch"}) : calls[i][3] = "ok"

\* the names of the fields the updater carries: the standard attributes set
\* on it, and the fields of the record found in the blocks staged on it
StagedNames(to_update, record) ==
    {"description" : x \in {1} \cap
                          (IF to_update.description = None THEN {} ELSE {1})}
    \cup {"user_owners" : x \in {1} \cap
                          (IF to_update.owner_users = None THEN {} ELSE {1})}
    \cup {"group_owners" : x \in {1} \cap
                          (IF to_update.owner_groups = None THEN {} ELSE {1})}
    \cup {"certificate" : x \in {1} \cap
                          (IF to_update.certificate_status = None THEN {}
                           ELSE {1})}
    \cup UNION { LET cm_set == record.custom_metadata_values[i]
                 IN  IF ~Has(to_update.business_attributes, cm_set[1]) THEN {}
                     ELSE LET block == Get(to_update.business_attributes,
                                           cm_set[1])
                          IN  {cm_set[1] \o "::" \o cm_set[2][j][1] :
                                 j \in {k \in 1..Len(cm_set[2]) :
                                          /\ Has(block, cm_set[2][k][1])
                                          /\ Get(block, cm_set[2][k][1])
                                               = cm_set[2][k][2]}}
               : i \in 1..Len(record.custom_metadata_values) }

\* C8: in a dry run update_asset_metadata makes no save and no
\* save_merging_cm call, and once the asset is fetched it returns success
\* with updated_fields naming the fields of the diff it computed.
C8_PreviewNeverPersists ==
    /\ (UpdateCall /\ op[1].dry_run)
       => /\ PersistCalls = {}
          /\ pc # "upd_persist"
    /\ (UpdateDone /\ op[1].dry_run /\ Fetched)
       => /\ ret[1].kind = "return"
          /\ ret[1].value.success
          /\ ret[1].value.error = None
          /\ ret[1].value.updated_fields = upd[1].diff[1].updated_fields
          /\ upd[1].unset = {}
             => Range(ret[1].value.updated_fields)
                  = StagedNames(upd[1].diff[1].to_update, op[1].record)
          /\ catalog[op[1].asset_info.guid] = upd[1].asset[1]

\* a dry run over a record with a standard field and custom metadata
C8_Witness ==
    /\ UpdateDone /\ op[1].dry_run /\ Fetched
    /\ ret[1].value.updated_fields
         = <<"description", "Data Governance::Data Steward">>
    /\ catalog = InitialCatalog

\* C9: an update that succeeds outside preview right after an update of the
\* same entity with the same non-empty record that also succeeded outside
\* preview leaves the entity as that first update left it (both updates
\* having staged every set they loaded).
C9_Idempotent ==
    (UpdateDone /\ ~op[1].dry_run /\ ret[1].kind = "return"
       /\ ret[1].value.success /\ lastCall # None
       /\ has_values(op[1].record)
       /\ lastCall[1].unset = {} /\ upd[1].unset = {}
       /\ lastCall[1].guid = op[1].asset_info.guid
       /\ lastCall[1].record = op[1].record)
    => catalog[op[1].asset_info.guid] = lastCall[1].after

\* both applications persisted, and the first one changed the entity
C9_Witness ==
    /\ UpdateDone /\ ~op[1].dry_run /\ ret[1].kind = "return"
    /\ ret[1].value.success /\ lastCall # None
    /\ lastCall[1].guid = op[1].asset_info.guid
    /\ lastCall[1].record = op[1].record
    /\ op[1].record.row_index = 4
    /\ \E i \in PersistCalls : calls[i][3] = "ack"
    /\ lastCall[1].after # InitialCatalog[lastCall[1].guid]
    /\ catalog[op[1].asset_info.guid] = lastCall[1].after

\* C10: update_asset_metadata never raises to its caller: whatever fails
\* inside the call, obtaining the client included, it returns an outcome
\* with success = false and the message of the failure as its error.
C10_NeverRaises ==
    UpdateDone
    => /\ ret[1].kind = "return"
       /\ (\E i \in 1..Len(calls) : calls[i][Len(calls[i])] = "raise")
          => /\ ~ret[1].value.success
             /\ ret[1].value.error \in {Some(ClientError), Some(FetchError),
                                        Some(PersistError)}

\* ======================================================================
\* Properties of an absent asset (specification SpecUpdate)
\* ======================================================================

FetchedAbsent == \E i \in CallsOf({"fetch"}) : calls[i][3] = "absent"

\* C11 as stated: when the fetch returns no entity, update_asset_metadata
\* returns success = false with error = "not found", persists nothing and
\* reports no updated field.
C11_AbsentAsStated ==
    (UpdateDone /\ FetchedAbsent)
    => /\ ret[1].kind = "return"
       /\ ~ret[1].value.success
       /\ ret[1].value.error = Some("not found")
       /\ ret[1].value.updated_fields = <<>>
       /\ PersistCalls = {}

\* C11: when the fetch returns no entity, update_asset_metadata returns
\* success = false with error = "Asset not found", persists nothing, reports
\* no updated field and leaves the catalog as it was.
C11_AbsentAsset ==
    (UpdateDone /\ FetchedAbsent)
    => /\ ret[1].kind = "return"
       /\ ~ret[1].value.success
       /\ ret[1].value.error = Some("Asset not found")
       /\ ret[1].value.updated_fields = <<>>
       /\ PersistCalls = {}
       /\ calls[Len(calls)] = <<"updated", op[1].asset_info.guid, "failure">>

\* a live call with values to write, on a guid the catalog does not hold
C11_Witness ==
    /\ UpdateDone /\ FetchedAbsent
    /\ op[1].asset_info.guid \notin Guids
    /\ ~op[1].dry_run
    /\ has_values(op[1].record)
    /\ ret[1].value.error = Some("Asset not found")

\* ======================================================================
\* Properties of find_assets_by_name (specification Spec)
\* ======================================================================

RECURSIVE KnownTypes(_)
\* the requested types the type map knows, in request order
KnownTypes(types) ==
    IF types = <<>> THEN <<>>
    ELSE (IF Head(types) \in ASSET_TYPE_MAP THEN <<Head(types)>> ELSE <<>>)
         \o KnownTypes(Tail(types))

\* the searches issued so far: the type and the outcome of each, in order
SearchLog ==
    LET isSearch(c) == c[1] = "search"
        s == SelectSeq(calls, isSearch)
    IN  [j \in 1..Len(s) |-> <<s[j][2], s[j][3]>>]

\* the entities of the initial catalog of a type and a name, as a set
EntitiesNamed(type_name, asset_name) ==
    {g \in Guids : /\ InitialCatalog[g].type_name = type_name
                   /\ InitialCatalog[g].name = asset_name}

\* C12: a failing search of one type, or an unknown type, never ends the
\* resolution: a search is issued for every known requested type, in request
\* order, whatever the earlier searches did; the matches of every search
\* that succeeded are returned; the resolver raises only when no client can
\* be obtained.
C12_SearchFailureIsolated ==
    /\ Resolved =>
         /\ [j \in 1..Len(SearchLog) |-> SearchLog[j][1]]
              = KnownTypes(find[1].asset_types)
         /\ \A j \in 1..Len(SearchLog) :
              SearchLog[j][2] = "ok" =>
                \A g \in EntitiesNamed(SearchLog[j][1], find[1].asset_name) :
                  \E m \in 1..Len(Matches) :
                    /\ Matches[m].guid = g
                    /\ Matches[m].type_name = SearchLog[j][1]
    /\ (RowDone /\ find # None /\ ~ResolverRaised) => Resolved
    /\ (RowDone /\ find # None /\ client) => Resolved

\* the first search fails and the search of the next type still returns its
\* matches
C12_Witness ==
    /\ RowDone /\ Resolved
    /\ find[1].asset_types = <<"Table", "Column">>
    /\ SearchLog = <<(<<"Table", "raise">>), (<<"Column", "ok">>)>>
    /\ Len(Matches) = 2

RECURSIVE MatchesOf(_, _)
\* the matches a log of searches yields: those of each search that
\* succeeded, in the order of the log
MatchesOf(log, asset_name) ==
    IF log = <<>> THEN <<>>
    ELSE (IF Head(log)[2] = "ok"
          THEN LET gs == SelectSeq(GuidOrder,
                           LAMBDA g : g \in EntitiesNamed(Head(log)[1],
                                                          asset_name))
               IN  [j \in 1..Len(gs) |->
                      [guid |-> gs[j],
                       qualified_name |-> InitialCatalog[gs[j]].qualified_name,
                       name |-> InitialCatalog[gs[j]].name,
                       type_name |-> Head(log)[1]]]
          ELSE <<>>)
         \o MatchesOf(Tail(log), asset_name)

\* C13: find_assets_by_name returns the concatenation, in requested type
\* order, of the matches of each search that succeeded, each tagged with the
\* type it was found under; an entity found by two searches is returned
\* twice.
C13_ConcatenationInTypeOrder ==
    Resolved =>
      /\ Matches = MatchesOf(SearchLog, find[1].asset_name)
      /\ RowDone => RowResult.assets_found = Len(Matches)

\* the same type requested twice: its entities are returned twice
C13_Witness ==
    /\ RowDone /\ Resolved
    /\ find[1].asset_types = <<"Column", "Column">>
    /\ Len(Matches) = 4
    /\ Matches[1].guid = Matches[3].guid
    /\ Matches[2].guid = Matches[4].guid
    /\ Matches[1].guid # Matches[2].guid

\* ======================================================================
\* parse_file: _classify_columns
\* ======================================================================

\* `sub in s` on strings; the empty string is in every string
Contains(s, sub) ==
    \E i \in 1..(Len(s) - Len(sub) + 1) : SubSeq(s, i, i + Len(sub) - 1) = sub

\* s.split(sep, 1) for a non-empty sep that occurs in s: the text before the
\* first occurrence and the text after it
split1(s, sep) ==
    LET at(i) == SubSeq(s, i, i + Len(sep) - 1) = sep
        i == CHOOSE j \in 1..(Len(s) - Len(sep) + 1) :
                 at(j) /\ \A h \in 1..(j - 1) : ~at(h)
    IN  <<SubSeq(s, 1, i - 1), SubSeq(s, i + Len(sep), Len(s))>>

\* str(e) of the ValueError str.split raises on an empty separator
EmptySeparator == "empty separator"

\* line 144: ColumnMapping(search_column="")
NewColumnMapping ==
    [search_column |-> "",
     standard_fields |-> <<>>,
     custom_metadata |-> <<>>,
     unrecognized_columns |-> <<>>]

\* ClassifyColumn keeping the first header of a standard role: a later header
\* of the same role does not replace it
ClassifyColumn_FirstStandardWins(mapping, col, search_col_lower, cm_delimiter) ==
    LET col_lower == strip(lower(col))
    IN  IF col_lower = search_col_lower
        THEN [kind |-> "return",
              value |-> [mapping EXCEPT !.search_column = col]]
        ELSE IF col_lower \in STANDARD_FIELDS
        THEN [kind |-> "return",
              value |-> IF Has(mapping.standard_fields, col_lower)
                        THEN mapping
                        ELSE [mapping EXCEPT
                                !.standard_fields = Put(@, col_lower, col)]]
        ELSE IF Contains(col, cm_delimiter)
        THEN IF cm_delimiter = ""
             THEN [kind |-> "raise", value |-> EmptySeparator]
             ELSE LET parts == split1(col, cm_delimiter)
                      cm_set == strip(parts[1])
                      field == strip(parts[2])
                      sets == IF Has(mapping.custom_metadata, cm_set)
                              THEN mapping.custom_metadata
                              ELSE Put(mapping.custom_metadata, cm_set, <<>>)
                  IN  [kind |-> "return",
                       value |-> [mapping EXCEPT
                                    !.custom_metadata =
                                        Put(sets, cm_set,
                                            Put(Get(sets, cm_set), field,
                                                col))]]
        ELSE [kind |-> "return",
              value |-> [mapping EXCEPT
                           !.unrecognized_columns = Append(@, col)]]

\* lines 148-163: the body of the loop, for one header; it returns the
\* mapping or raises
ClassifyColumn(mapping, col, search_col_lower, cm_delimiter) ==
    LET col_lower == strip(lower(col))
    IN  IF col_lower = search_col_lower
        THEN [kind |-> "return",
              value |-> [mapping EXCEPT !.search_column = col]]
        ELSE IF col_lower \in STANDARD_FIELDS
        THEN [kind |-> "return",
              value |-> [mapping EXCEPT
                           !.standard_fields = Put(@, col_lower, col)]]
        ELSE IF Contains(col, cm_delimiter)
        THEN IF cm_delimiter = ""
             THEN [kind |-> "raise", value |-> EmptySeparator]
             ELSE LET parts == split1(col, cm_delimiter)
                      cm_set == strip(parts[1])
                      field == strip(parts[2])
                      sets == IF Has(mapping.custom_metadata, cm_set)
                              THEN mapping.custom_metadata
                              ELSE Put(mapping.custom_metadata, cm_set, <<>>)
                  IN  [kind |-> "return",
                       value |-> [mapping EXCEPT
                                    !.custom_metadata =
                                        Put(sets, cm_set,
                                            Put(Get(sets, cm_set), field,
                                                col))]]
        ELSE [kind |-> "return",
              value |-> [mapping EXCEPT
                           !.unrecognized_columns = Append(@, col)]]

RECURSIVE ClassifyFrom(_, _, _, _)
\* lines 147-165: the loop over the headers left, then the return
ClassifyFrom(mapping, columns, search_col_lower, cm_delimiter) ==
    IF columns = <<>>
    THEN [kind |-> "return", value |-> mapping]
    ELSE LET one == ClassifyColumn(mapping, Head(columns), search_col_lower,
                                   cm_delimiter)
         IN  IF one.kind = "raise" THEN one
             ELSE ClassifyFrom(one.value, Tail(columns), search_col_lower,
                               cm_delimiter)

\* lines 140-165
classify_columns(columns, search_column, cm_delimiter) ==
    ClassifyFrom(NewColumnMapping, columns, lower(search_column),
                 cm_delimiter)

\* the longest header list classified
MaxHeaders == 3

\* the headers of the files: the search column in three spellings, a standard
\* field in two, custom-metadata headers with the same set and field, with
\* an empty field, and a header no rule matches
Headers ==
    {"name", "Name", "NAME ", "description", "Description",
     "A::B", "A:: B", "A::", "other"}
SearchColumns == {"name", "Name"}
Delimiters == {"::", ""}

ClassifyCalls ==
    {[columns |-> columns,
      search_column |-> search_column,
      cm_delimiter |-> cm_delimiter,
      ret |-> None,
      has_updates |-> None] :
        columns \in SeqsUpTo(Headers, MaxHeaders),
        search_column \in SearchColumns,
        cm_delimiter \in Delimiters}

InitClassify ==
    /\ catalog = InitialCatalog
    /\ client = FALSE
    /\ pc = "idle"
    /\ op = None
    /\ row = None
    /\ find = None
    /\ upd = None
    /\ ret = None
    /\ calls = <<>>
    /\ lastCall = None
    /\ run = None
    /\ \E call \in ClassifyCalls : parse = Some(call)

\* _classify_columns runs on its arguments and returns or raises
ClassifyColumns ==
    /\ parse # None
    /\ parse[1].ret = None
    /\ parse' = Some([parse[1] EXCEPT
                        !.ret = Some(classify_columns(parse[1].columns,
                                                      parse[1].search_column,
                                                      parse[1].cm_delimiter))])
    /\ UNCHANGED <<catalog, client, pc, op, row, find, upd, ret, calls,
                   lastCall, run>>

\* has_updates testing the standard fields only
has_updates_StandardOnly(mapping) == mapping.standard_fields # <<>>

\* models.py lines 26-28: bool(self.standard_fields or self.custom_metadata)
has_updates(mapping) ==
    mapping.standard_fields # <<>> \/ mapping.custom_metadata # <<>>

\* mapping.has_updates() is called on the mapping _classify_columns returned
CallHasUpdates ==
    /\ parse # None
    /\ parse[1].ret # None
    /\ parse[1].ret[1].kind = "return"
    /\ parse[1].has_updates = None
    /\ parse' = Some([parse[1] EXCEPT
                        !.has_updates =
                            Some(has_updates(parse[1].ret[1].value))])
    /\ UNCHANGED <<catalog, client, pc, op, row, find, upd, ret, calls,
                   lastCall, run>>

NextClassify ==
    \/ ClassifyColumns
    \/ CallHasUpdates

SpecClassify == InitClassify /\ [][NextClassify]_vars

\* a call of _classify_columns has ended; its arguments and its outcome
Classified == parse # None /\ parse[1].ret # None
H == parse[1].columns
ClassifyOutcome == parse[1].ret[1]
Mapping == ClassifyOutcome.value

\* ======================================================================
\* parse_file: the file, _extract_records
\* ======================================================================

\* A file as pandas loads it with dtype=str: the headers, and the rows with
\* one cell per header, a cell being NaN (None) or a string. Headers differ
\* after stripping, so that row.get(col) is one cell.
DataFrame(columns, rows) == [columns |-> columns, rows |-> rows]

\* line 105: df.columns.str.strip()
StripColumns(df) ==
    [df EXCEPT !.columns = [j \in 1..Len(df.columns) |-> strip(df.columns[j])]]

\* row.get(col_name)
Cell(df, r, col_name) ==
    df.rows[r][CHOOSE j \in 1..Len(df.columns) : df.columns[j] = col_name]

\* Filled without the test of the stripped text: a blank cell counts
Filled_NotNaN(cell) == cell # None

\* not pd.isna(value) and str(value).strip()
Filled(cell) == cell # None /\ strip(cell[1]) # ""

RECURSIVE ExtractValues(_, _, _)
\* lines 182-186 and 191-195: the filled cells of the row under the columns
\* of a dict field_name -> col_name, stripped
ExtractValues(df, r, fields) ==
    IF fields = <<>> THEN <<>>
    ELSE LET value == Cell(df, r, Head(fields)[2])
         IN  (IF Filled(value)
              THEN << <<Head(fields)[1], strip(value[1])>> >>
              ELSE <<>>)
             \o ExtractValues(df, r, Tail(fields))

RECURSIVE ExtractCm_KeepingEmptySets(_, _, _)
\* ExtractCm without the test of line 196: a set is stored even when none of
\* its fields has a value
ExtractCm_KeepingEmptySets(df, r, sets) ==
    IF sets = <<>> THEN <<>>
    ELSE << <<Head(sets)[1], ExtractValues(df, r, Head(sets)[2])>> >>
         \o ExtractCm_KeepingEmptySets(df, r, Tail(sets))

RECURSIVE ExtractCm(_, _, _)
\* lines 189-197: a set is kept when one of its fields has a value
ExtractCm(df, r, sets) ==
    IF sets = <<>> THEN <<>>
    ELSE LET cm_field_values == ExtractValues(df, r, Head(sets)[2])
         IN  (IF cm_field_values # <<>>
              THEN << <<Head(sets)[1], cm_field_values>> >>
              ELSE <<>>)
             \o ExtractCm(df, r, Tail(sets))

RECURSIVE ExtractFrom(_, _, _)
\* lines 173-206: the rows from r on; idx is the position of the row in the
\* file, from 0
ExtractFrom(df, mapping, r) ==
    IF r > Len(df.rows) THEN <<>>
    ELSE LET asset_name == Cell(df, r, mapping.search_column)
         IN  (IF ~Filled(asset_name) THEN <<>>
              ELSE <<Record(r - 1, strip(asset_name[1]),
                            ExtractValues(df, r, mapping.standard_fields),
                            ExtractCm(df, r, mapping.custom_metadata))>>)
             \o ExtractFrom(df, mapping, r + 1)

\* extract_records numbering the records it keeps instead of the rows
extract_records_Renumbering(df, mapping) ==
    LET records == ExtractFrom(df, mapping, 1)
    IN  [j \in 1..Len(records) |-> [records[j] EXCEPT !.row_index = j - 1]]

\* lines 167-208
extract_records(df, mapping) == ExtractFrom(df, mapping, 1)

\* str(e) of the exception pandas raises on a file it cannot load
ReadError == "No columns to parse from file"

\* lines 84-138: config.file is the loaded file, or None when pandas cannot
\* load the content
parse_file(config) ==
    IF config.file = None
    THEN [kind |-> "raise", value |-> ReadError]
    ELSE LET df == StripColumns(config.file[1])
             classified == classify_columns(df.columns, config.search_column,
                                            config.cm_delimiter)
         IN  IF classified.kind = "raise" THEN classified
             ELSE IF classified.value.search_column = ""
             THEN [kind |-> "raise",
                   value |-> "No search column '" \o config.search_column
                             \o "' found in file"]
             ELSE [kind |-> "return",
                   value |-> [records |->
                                  extract_records(df, classified.value),
                              total_rows |-> Len(df.rows)]]

\* ======================================================================
\* BulkMetadataEnrichmentWorkflow.run
\* ======================================================================

\* RetryPolicy(maximum_attempts=3): an activity that fails is tried again
\* until this many attempts have failed
MaximumAttempts == 3

\* to_dict: self.errors[:10]
ErrorsReported == 10

\* str(e) of the ActivityError the engine raises in the workflow when the
\* last attempt of an activity has failed
ActivityTaskFailed == "Activity task failed"

\* WorkflowResult()
NewWorkflowResult ==
    [total_rows |-> 0,
     successful_rows |-> 0,
     partial_rows |-> 0,
     failed_rows |-> 0,
     not_found_rows |-> 0,
     skipped_rows |-> 0,
     total_assets_found |-> 0,
     total_assets_updated |-> 0,
     row_results |-> <<>>,
     errors |-> <<>>]

\* the error line of a row
RowError(row_index, error) == "Row " \o ToString(row_index) \o ": " \o error

\* to_dict without the slice: every error is reported
to_dict_Uncapped(result) ==
    [total_rows |-> result.total_rows,
     successful_rows |-> result.successful_rows,
     partial_rows |-> result.partial_rows,
     failed_rows |-> result.failed_rows,
     not_found_rows |-> result.not_found_rows,
     skipped_rows |-> result.skipped_rows,
     total_assets_found |-> result.total_assets_found,
     total_assets_updated |-> result.total_assets_updated,
     errors |-> result.errors]

\* models.py lines 87-99: the report; row_results is left out and errors is
\* cut to its first ten entries
to_dict(result) ==
    [total_rows |-> result.total_rows,
     successful_rows |-> result.successful_rows,
     partial_rows |-> result.partial_rows,
     failed_rows |-> result.failed_rows,
     not_found_rows |-> result.not_found_rows,
     skipped_rows |-> result.skipped_rows,
     total_assets_found |-> result.total_assets_found,
     total_assets_updated |-> result.total_assets_updated,
     errors |-> SubSeq(result.errors, 1,
                       IF Len(result.errors) < ErrorsReported
                       THEN Len(result.errors) ELSE ErrorsReported)]

\* FoldRow counting the matches of the rows that succeeded only
FoldRow_TotalsOfSuccessOnly(result, row_result) ==
    LET status == row_result.status
        counted ==
            IF status = SUCCESS
            THEN [result EXCEPT
                    !.successful_rows = @ + 1,
                    !.total_assets_found = @ + row_result.assets_found,
                    !.total_assets_updated = @ + row_result.assets_updated]
            ELSE IF status = PARTIAL
            THEN [result EXCEPT !.partial_rows = @ + 1]
            ELSE IF status = FAILED
            THEN [result EXCEPT
                    !.failed_rows = @ + 1,
                    !.errors = IF row_result.error # None
                                  /\ row_result.error[1] # ""
                               THEN Append(@, RowError(row_result.row_index,
                                                       row_result.error[1]))
                               ELSE @]
            ELSE IF status = NOT_FOUND
            THEN [result EXCEPT !.not_found_rows = @ + 1]
            ELSE IF status = SKIPPED
            THEN [result EXCEPT !.skipped_rows = @ + 1]
            ELSE result
    IN  [counted EXCEPT !.row_results = Append(@, row_result)]

\* workflow.py lines 106-127: a row outcome is folded into the result
FoldRow(result, row_result) ==
    LET status == row_result.status
        summed == [result EXCEPT
                     !.total_assets_found = @ + row_result.assets_found,
                     !.total_assets_updated = @ + row_result.assets_updated]
        counted ==
            IF status = SUCCESS
            THEN [summed EXCEPT !.successful_rows = @ + 1]
            ELSE IF status = PARTIAL
            THEN [summed EXCEPT !.partial_rows = @ + 1]
            ELSE IF status = FAILED
            THEN [summed EXCEPT
                    !.failed_rows = @ + 1,
                    !.errors = IF row_result.error # None
                                  /\ row_result.error[1] # ""
                               THEN Append(@, RowError(row_result.row_index,
                                                       row_result.error[1]))
                               ELSE @]
            ELSE IF status = NOT_FOUND
            THEN [summed EXCEPT !.not_found_rows = @ + 1]
            ELSE IF status = SKIPPED
            THEN [summed EXCEPT !.skipped_rows = @ + 1]
            ELSE summed
    IN  [counted EXCEPT !.row_results = Append(@, row_result)]

\* RowRaised without lines 131-133: the row is counted and leaves no error
\* line
RowRaised_CountedOnly(result, record, msg) ==
    [result EXCEPT !.failed_rows = @ + 1]

\* workflow.py lines 129-133: the activity of the row raised
RowRaised(result, record, msg) ==
    [result EXCEPT !.failed_rows = @ + 1,
                   !.errors = Append(@, RowError(record.row_index, msg))]

\* the most assets a search resolves a name to
MaxMatches == 2

\* activities.py lines 406-464: the outcomes process_single_row returns for
\* a record. Where no client can be built every search fails; elsewhere the
\* resolver raises, finds nothing, or finds n assets of which s are updated.
RowOutcomes(record, world) ==
    LET result == NewRowResult(record)
        search_failed ==
            [result EXCEPT !.status = FAILED,
                           !.error = Some("Search failed: " \o ClientError)]
    IN  IF ~has_values(record)
        THEN {[result EXCEPT !.status = SKIPPED]}
        ELSE IF world = "no_credentials"
        THEN {search_failed}
        ELSE {search_failed, [result EXCEPT !.status = NOT_FOUND]}
             \cup UNION {
                    {RowOutcome([result EXCEPT !.assets_found = n],
                                s, n - s, n) : s \in 0..n} :
                    n \in 1..MaxMatches}

\* the longest file processed where any call may fail
MaxRows == 3

\* the rows of the long file, processed where no client can be built
LongRows == 12

\* the rows of the files: values to write, no value, no name, a blank name
FileRows ==
    { <<Some("cust_id"), Some("Unique id")>>,
      <<Some("cust_id"), None>>,
      <<None, Some("Unique id")>>,
      <<Some("  "), None>> }

\* the files of the runs: one pandas cannot load, one without the search
\* column, the files of up to MaxRows rows, and the long file
Files ==
    {None, Some(DataFrame(<<"id", "description">>, <<>>))}
    \cup {Some(DataFrame(<<"name ", "Description">>, rows)) :
            rows \in SeqsUpTo(FileRows, MaxRows)}
    \cup {Some(DataFrame(<<"name ", "Description">>,
                         [r \in 1..LongRows |->
                            <<Some("cust_id"), Some("Unique id")>>]))}

\* full_config, with the defaults of lines 86-87 of activities.py
WorkflowConfigs ==
    {[file |-> file, search_column |-> "name", cm_delimiter |-> "::"] :
        file \in Files}

\* where a run takes place: "faulty", any attempt of an activity may be lost
\* and any call to the catalog may fail; "no_credentials", the engine is
\* reliable and AtlanClient() always raises
Worlds == {"faulty", "no_credentials"}

RowsOf(config) == IF config.file = None THEN 0 ELSE Len(config.file[1].rows)

InitWorkflow ==
    /\ catalog = InitialCatalog
    /\ client = FALSE
    /\ pc = "idle"
    /\ op = None
    /\ row = None
    /\ find = None
    /\ upd = None
    /\ ret = None
    /\ calls = <<>>
    /\ lastCall = None
    /\ parse = None
    /\ \E config \in WorkflowConfigs, world \in Worlds :
         /\ world = "faulty" => RowsOf(config) <= MaxRows
         /\ run = Some([pc |-> "args",
                        config |-> config,
                        world |-> world,
                        attempt |-> 1,
                        cause |-> None,
                        records |-> <<>>,
                        i |-> 0,
                        started |-> <<>>,
                        result |-> NewWorkflowResult,
                        ret |-> None])

\* the ways one attempt of an activity goes: it runs, or the engine loses it
\* (worker crash, timeout)
Attempts(w) == IF w.world = "faulty" THEN {"runs", "lost"} ELSE {"runs"}

\* an attempt failed: the activity is tried again while attempts remain
Retry(w, msg) == [w EXCEPT !.attempt = @ + 1, !.cause = Some(msg)]
LastAttempt(w) == w.attempt >= MaximumAttempts

\* the run ends: it returns the report, or the exception escapes
Returns(w, result) ==
    [w EXCEPT !.pc = "returned", !.result = result,
              !.ret = Some([kind |-> "return", value |-> to_dict(result)])]
Raises(w, msg) ==
    [w EXCEPT !.pc = "raised",
              !.ret = Some([kind |-> "raise", value |-> msg])]

\* workflow.py lines 45-50: the configuration is read from the state store;
\* no try surrounds the call
GetWorkflowArgs ==
    /\ run # None
    /\ run[1].pc = "args"
    /\ LET w == run[1]
       IN  \E got \in Attempts(w) :
             run' = Some(IF got = "runs"
                         THEN [w EXCEPT !.pc = "parse", !.attempt = 1,
                                        !.cause = None]
                         ELSE IF LastAttempt(w)
                         THEN Raises(w, ActivityTaskFailed)
                         ELSE Retry(w, "lost"))
    /\ UNCHANGED <<catalog, client, pc, op, row, find, upd, ret, calls,
                   lastCall, parse>>

\* ParseOk with total_rows assigned after the test of line 89
ParseOk_RowsCountedAfterTest(w, parse_result) ==
    LET records == parse_result.records
    IN  IF records = <<>>
        THEN Returns([w EXCEPT !.cause = None],
                     [w.result EXCEPT
                        !.errors = Append(@,
                            "No valid records found in file")])
        ELSE [w EXCEPT !.pc = "rows", !.attempt = 1, !.cause = None,
                       !.records = records, !.i = 1,
                       !.result = [w.result EXCEPT
                                     !.total_rows = parse_result.total_rows]]

\* workflow.py lines 86-93: parse_file returned
ParseOk(w, parse_result) ==
    LET records == parse_result.records
        result == [w.result EXCEPT !.total_rows = parse_result.total_rows]
    IN  IF records = <<>>
        THEN Returns([w EXCEPT !.cause = None],
                     [result EXCEPT
                        !.errors = Append(@,
                            "No valid records found in file")])
        ELSE [w EXCEPT !.pc = "rows", !.attempt = 1, !.cause = None,
                       !.records = records, !.i = 1, !.result = result]

\* workflow.py lines 82-84: the last attempt of parse_file failed
ParseFailed(w, msg) ==
    Returns([w EXCEPT !.cause = Some(msg)],
            [w.result EXCEPT
               !.errors = Append(@, "Failed to parse file: "
                                    \o ActivityTaskFailed)])

\* workflow.py lines 73-93: step 1, parse the file
ParseFile ==
    /\ run # None
    /\ run[1].pc = "parse"
    /\ LET w == run[1]
       IN  \E got \in Attempts(w) :
             LET outcome == IF got = "lost"
                            THEN [kind |-> "raise", value |-> "lost"]
                            ELSE parse_file(w.config)
             IN  run' = Some(IF outcome.kind = "return"
                             THEN ParseOk(w, outcome.value)
                             ELSE IF LastAttempt(w)
                             THEN ParseFailed(w, outcome.value)
                             ELSE Retry(w, outcome.value))
    /\ UNCHANGED <<catalog, client, pc, op, row, find, upd, ret, calls,
                   lastCall, parse>>

\* workflow.py lines 96-133: step 2, one record; an attempt of
\* process_single_row runs and its outcome is folded, or it is lost and the
\* last loss is counted as a failed row
ProcessRow ==
    /\ run # None
    /\ run[1].pc = "rows"
    /\ run[1].i <= Len(run[1].records)
    /\ LET w == run[1]
           record == w.records[w.i]
           s == [w EXCEPT !.started = IF w.attempt = 1
                                      THEN Append(@, record.row_index)
                                      ELSE @]
       IN  \E got \in Attempts(w) :
             IF got = "runs"
             THEN \E row_result \in RowOutcomes(record, w.world) :
                    run' = Some([s EXCEPT
                                   !.result = FoldRow(@, row_result),
                                   !.i = @ + 1, !.attempt = 1,
                                   !.cause = None])
             ELSE run' = Some(IF LastAttempt(w)
                              THEN [s EXCEPT
                                      !.result = RowRaised(@, record,
                                                    ActivityTaskFailed),
                                      !.i = @ + 1, !.attempt = 1,
                                      !.cause = None]
                              ELSE Retry(s, "lost"))
    /\ UNCHANGED <<catalog, client, pc, op, row, find, upd, ret, calls,
                   lastCall, parse>>

\* workflow.py lines 135-140: every record was processed
Finish ==
    /\ run # None
    /\ run[1].pc = "rows"
    /\ run[1].i > Len(run[1].records)
    /\ run' = Some(Returns(run[1], run[1].result))
    /\ UNCHANGED <<catalog, client, pc, op, row, find, upd, ret, calls,
                   lastCall, parse>>

NextWorkflow ==
    \/ GetWorkflowArgs
    \/ ParseFile
    \/ ProcessRow
    \/ Finish

SpecWorkflow == InitWorkflow /\ [][NextWorkflow]_vars

\* ======================================================================
\* Properties of the workflow run (specification SpecWorkflow)
\* ======================================================================

\* the run has ended; it returned a report
RunDone == run # None /\ run[1].pc \in {"returned", "raised"}
Reported == run # None /\ run[1].pc = "returned"
Report == run[1].ret[1].value
\* the outcomes folded so far, and the records processed so far
Folded == run[1].result.row_results
Processed == IF run[1].i = 0 THEN 0 ELSE run[1].i - 1
\* the run met a fatal condition: parse_file failed, or gave no record
Fatal == Reported /\ run[1].records = <<>>
ParseFailedRun == Fatal /\ run[1].cause # None
NoValidRecords == Fatal /\ run[1].cause = None

\* C14: for every folded row outcome whose error is set, whatever its status
\* (PARTIAL as well as FAILED), the line "Row {row_index}: {error}" is in
\* the aggregate error list.
C14_ErrorLineForEveryError ==
    run # None =>
      \A j \in 1..Len(Folded) :
        Folded[j].error # None =>
          \E e \in 1..Len(run[1].result.errors) :
            run[1].result.errors[e]
              = RowError(Folded[j].row_index, Folded[j].error[1])

\* the folded outcome of a record, if its activity returned one
OutcomeOf(record) ==
    LET js == {j \in 1..Len(Folded) :
                 Folded[j].row_index = record.row_index}
    IN  IF js = {} THEN None ELSE Some(Folded[CHOOSE j \in js : TRUE])

RECURSIVE LinesProduced(_)
\* the error lines the first n records produced, oldest first: one for a
\* FAILED outcome and one for a row whose activity raised
LinesProduced(n) ==
    IF n = 0 THEN <<>>
    ELSE LET record == run[1].records[n]
             o == OutcomeOf(record)
         IN  LinesProduced(n - 1)
             \o (IF o = None
                 THEN <<RowError(record.row_index, ActivityTaskFailed)>>
                 ELSE IF o[1].status = FAILED /\ o[1].error # None
                 THEN <<RowError(record.row_index, o[1].error[1])>>
                 ELSE <<>>)

CounterSum(r) ==
    r.successful_rows + r.partial_rows + r.failed_rows + r.not_found_rows
    + r.skipped_rows

\* C15: the errors of the report are never more than 10 and are the 10
\* oldest error lines in the order they were produced; with more than 10
\* errors the counters of the report still count every row.
C15_ErrorsCapped ==
    (Reported /\ ~Fatal) =>
      LET lines == LinesProduced(Len(run[1].records))
      IN  /\ Len(Report.errors) <= 10
          /\ Len(Report.errors) = IF Len(lines) < 10 THEN Len(lines) ELSE 10
          /\ Report.errors = SubSeq(lines, 1, Len(Report.errors))
          /\ CounterSum(Report) = Len(run[1].records)
          /\ Report.failed_rows >= Len(lines)

\* twelve rows failed: the report lists the first ten and counts twelve
C15_Witness ==
    /\ Reported
    /\ Len(run[1].records) = 12
    /\ Len(run[1].result.errors) = 12
    /\ Len(Report.errors) = 10
    /\ Report.errors[1] = "Row 0: Search failed: client unavailable"
    /\ Report.errors[10] = "Row 9: Search failed: client unavailable"
    /\ Report.failed_rows = 12

CountOf(status) ==
    Cardinality({j \in 1..Len(Folded) : Folded[j].status = status})
RECURSIVE SumFound(_)
SumFound(rs) ==
    IF rs = <<>> THEN 0 ELSE Head(rs).assets_found + SumFound(Tail(rs))
RECURSIVE SumUpdated(_)
SumUpdated(rs) ==
    IF rs = <<>> THEN 0 ELSE Head(rs).assets_updated + SumUpdated(Tail(rs))

\* C16: after any number of rows, each status counter equals the number of
\* folded outcomes of that status (the failed counter also counts the rows
\* whose activity raised), the five counters sum to the number of records
\* processed, and the two totals are the sums over the folded outcomes; the
\* report carries these numbers.
C16_CountersMatchOutcomes ==
    run # None =>
      LET r == run[1].result
      IN  /\ r.successful_rows = CountOf(SUCCESS)
          /\ r.partial_rows = CountOf(PARTIAL)
          /\ r.not_found_rows = CountOf(NOT_FOUND)
          /\ r.skipped_rows = CountOf(SKIPPED)
          /\ r.failed_rows = CountOf(FAILED) + (Processed - Len(Folded))
          /\ CounterSum(r) = Processed
          /\ r.total_assets_found = SumFound(Folded)
          /\ r.total_assets_updated = SumUpdated(Folded)
          /\ Reported =>
               /\ Processed = Len(run[1].records)
               /\ CounterSum(Report) = Processed
               /\ Report.total_assets_found = SumFound(Folded)
               /\ Report.total_assets_updated = SumUpdated(Folded)

\* three rows: one PARTIAL with 1 of 2 updated, one FAILED with 2 found, one
\* SKIPPED
C16_Witness ==
    /\ Reported
    /\ Len(Folded) = 3
    /\ Folded[1].status = PARTIAL
    /\ Folded[2].status = FAILED /\ Folded[2].assets_found = 2
    /\ Folded[3].status = SKIPPED
    /\ Report.partial_rows = 1 /\ Report.failed_rows = 1
    /\ Report.skipped_rows = 1
    /\ Report.total_assets_found = 4 /\ Report.total_assets_updated = 1

ZeroCounters(r) ==
    /\ CounterSum(r) = 0
    /\ r.total_assets_found = 0
    /\ r.total_assets_updated = 0

\* C17 as stated: a fatal parse-time condition (parse fails, search column
\* missing, no valid record) short-circuits the run: no row is processed and
\* the report has zero rows, all counters zero and exactly one error entry.
C17_FatalAsStated ==
    Fatal =>
      /\ run[1].started = <<>>
      /\ Folded = <<>>
      /\ Report.total_rows = 0
      /\ ZeroCounters(Report)
      /\ Len(Report.errors) = 1

\* C17: a fatal parse-time condition short-circuits the run: no row is
\* processed and the report has all status counters and match totals zero
\* and exactly one error entry; total_rows is zero when the parse step fails
\* or the search column is missing, and is the number of rows of the file
\* when no valid record is extracted.
C17_FatalShortCircuits ==
    Fatal =>
      /\ run[1].started = <<>>
      /\ Folded = <<>>
      /\ ZeroCounters(Report)
      /\ Len(Report.errors) = 1
      /\ ParseFailedRun =>
           /\ Report.total_rows = 0
           /\ Report.errors
                = <<"Failed to parse file: " \o ActivityTaskFailed>>
      /\ NoValidRecords =>
           /\ Report.total_rows = RowsOf(run[1].config)
           /\ Report.errors = <<"No valid records found in file">>

\* a file of three rows, none with a name
C17_Witness ==
    /\ NoValidRecords
    /\ RowsOf(run[1].config) = 3
    /\ Report.total_rows = 3
    /\ Report.errors = <<"No valid records found in file">>

\* C18: the run always ends by returning a report, whichever step fails
\* (configuration retrieval, parse, any row), and never lets an exception
\* escape; a fatal condition returns a report with one error.
C18_AlwaysReports ==
    RunDone =>
      /\ run[1].ret[1].kind = "return"
      /\ Fatal => Len(Report.errors) = 1

\* ======================================================================
\* Properties of _classify_columns (specification SpecClassify)
\* ======================================================================

\* C19: for every header list H and search-column name s in H, the search
\* column of the mapping is s, also when other headers of H match s without
\* regard to case or surrounding blanks.
C19_SearchColumnIsS ==
    (Classified /\ ClassifyOutcome.kind = "return"
       /\ parse[1].search_column \in Range(H))
    => Mapping.search_column = parse[1].search_column

\* the number of places where the mapping records the header h
Places(m, h) ==
    (IF m.search_column = h THEN 1 ELSE 0)
    + Cardinality({j \in 1..Len(m.standard_fields) :
                     m.standard_fields[j][2] = h})
    + Cardinality({p \in UNION {{<<s, f>> :
                                   f \in 1..Len(m.custom_metadata[s][2])} :
                                s \in 1..Len(m.custom_metadata)} :
                     m.custom_metadata[p[1]][2][p[2]][2] = h})
    + Cardinality({j \in 1..Len(m.unrecognized_columns) :
                     m.unrecognized_columns[j] = h})
Occurrences(h) == Cardinality({j \in 1..Len(H) : H[j] = h})

\* C20: classification never raises and partitions the headers: each header
\* of the list is recorded in exactly one of search column, standard fields,
\* custom-metadata fields and unrecognized columns, none lost and none twice.
C20_HeadersPartitioned ==
    Classified =>
      /\ ClassifyOutcome.kind = "return"
      /\ \A j \in 1..Len(H) : Places(Mapping, H[j]) = Occurrences(H[j])

\* the headers of H that match the search-column name, without regard to
\* case and surrounding blanks, by position
SearchMatches ==
    {j \in 1..Len(H) :
       strip(lower(H[j])) = strip(lower(parse[1].search_column))}
\* the headers that are neither the search column nor a standard field and
\* hold the delimiter, by position
Delimited ==
    {j \in 1..Len(H) :
       /\ j \notin SearchMatches
       /\ strip(lower(H[j])) \notin STANDARD_FIELDS
       /\ parse[1].cm_delimiter # ""
       /\ Contains(H[j], parse[1].cm_delimiter)}
\* the set and the field such a header names
SetOf(h) == strip(split1(h, parse[1].cm_delimiter)[1])
FieldOf(h) == strip(split1(h, parse[1].cm_delimiter)[2])
\* the headers the mapping holds as custom-metadata columns
CmColumns(m) ==
    UNION {{m.custom_metadata[s][2][f][2] :
              f \in 1..Len(m.custom_metadata[s][2])} :
           s \in 1..Len(m.custom_metadata)}

\* C21: a header "A{d}B", not the search column and not a standard field,
\* with A and B non-empty after trimming is registered as
\* custom_metadata[A][B], split on the first d only; a header whose left or
\* right part is empty after trimming is in unrecognized and not in
\* custom_metadata.
C21_DelimitedHeaders ==
    (Classified /\ ClassifyOutcome.kind = "return") =>
      \A j \in Delimited :
        IF SetOf(H[j]) # "" /\ FieldOf(H[j]) # ""
        THEN /\ Has(Mapping.custom_metadata, SetOf(H[j]))
             /\ Has(Get(Mapping.custom_metadata, SetOf(H[j])), FieldOf(H[j]))
        ELSE /\ H[j] \in Range(Mapping.unrecognized_columns)
             /\ H[j] \notin CmColumns(Mapping)

\* C22: when several headers match the search-column name, the first in
\* header order is the search column and each later one falls through to
\* the remaining rules: it is recorded as custom metadata or unrecognized.
C22_FirstSearchMatchWins ==
    (Classified /\ ClassifyOutcome.kind = "return" /\ SearchMatches # {}) =>
      LET first == CHOOSE j \in SearchMatches :
                     \A k \in SearchMatches : j <= k
      IN  /\ Mapping.search_column = H[first]
          /\ \A k \in SearchMatches \ {first} :
               H[k] # H[first] =>
                 H[k] \in Range(Mapping.unrecognized_columns)
                          \cup CmColumns(Mapping)

\* the headers whose lower-cased trimmed form is the role, and that are not
\* the search column, by position
OfRole(role) ==
    {j \in 1..Len(H) :
       /\ strip(lower(H[j])) = role
       /\ strip(lower(H[j])) # lower(parse[1].search_column)}

\* C23: a header that is not the search column and whose lower-cased trimmed
\* form is one of the five standard fields is recorded in standard_fields
\* under that lower-case role, mapped to the header as written; of two
\* headers of one role the later one is kept; no other role is recorded.
C23_StandardFields ==
    (Classified /\ ClassifyOutcome.kind = "return") =>
      /\ Keys(Mapping.standard_fields) \subseteq STANDARD_FIELDS
      /\ \A role \in STANDARD_FIELDS :
           IF OfRole(role) = {}
           THEN ~Has(Mapping.standard_fields, role)
           ELSE /\ Has(Mapping.standard_fields, role)
                /\ Get(Mapping.standard_fields, role)
                     = H[CHOOSE j \in OfRole(role) :
                           \A k \in OfRole(role) : k <= j]

\* two headers of the role description: the later one is kept
C23_Witness ==
    /\ Classified /\ ClassifyOutcome.kind = "return"
    /\ H = <<"name", "description", "Description">>
    /\ Mapping.standard_fields = << <<"description", "Description">> >>
    /\ Mapping.search_column = "name"

\* ======================================================================
\* parse_file on small files (specification SpecParse)
\* ======================================================================

\* the most rows of a parsed file
MaxParseRows == 2

\* the headers of the parsed files: the search column, a standard field and
\* two fields of one custom-metadata set
ParseColumns == <<"name", "Description ", "Ops::Tier", "Ops :: Owner">>

\* the rows: a name that is absent, blank or padded; values absent, blank or
\* present
ParseRows ==
    {<<n, d, t, o>> :
       n \in {None, Some("  "), Some(" cust_id ")},
       d \in {None, Some(" v ")},
       t \in {None, Some(" "), Some("1")},
       o \in {None, Some("o")}}

ParseConfigs ==
    {[file |-> Some(DataFrame(ParseColumns, rows)),
      search_column |-> "name",
      cm_delimiter |-> "::"] :
        rows \in SeqsUpTo(ParseRows, MaxParseRows)}

InitParse ==
    /\ catalog = InitialCatalog
    /\ client = FALSE
    /\ pc = "idle"
    /\ op = None
    /\ row = None
    /\ find = None
    /\ upd = None
    /\ ret = None
    /\ calls = <<>>
    /\ lastCall = None
    /\ run = None
    /\ \E config \in ParseConfigs :
         parse = Some([config |-> config, ret |-> None])

\* parse_file runs on its configuration and returns or raises
CallParseFile ==
    /\ parse # None
    /\ parse[1].ret = None
    /\ parse' = Some([parse[1] EXCEPT
                        !.ret = Some(parse_file(parse[1].config))])
    /\ UNCHANGED <<catalog, client, pc, op, row, find, upd, ret, calls,
                   lastCall, run>>

NextParse ==
    \/ CallParseFile

SpecParse == InitParse /\ [][NextParse]_vars

\* parse_file returned; the rows of its file and the records it extracted
Parsed ==
    parse # None /\ parse[1].ret # None /\ parse[1].ret[1].kind = "return"
SourceRows == parse[1].config.file[1].rows
Records == parse[1].ret[1].value.records
\* the cell is absent or blank
Blank(cell) == cell = None \/ strip(cell[1]) = ""
\* the record extracted from the r-th row, if any
RecordsOfRow(r) == {i \in 1..Len(Records) : Records[i].row_index = r - 1}

\* C24: a row gives a record if and only if its search-column cell is
\* present and non-empty after trimming; a row with a name and no other
\* value is kept, with empty standard_values and custom_metadata_values,
\* and process_single_row ends SKIPPED on it.
C24_RecordIffName ==
    Parsed =>
      \A r \in 1..Len(SourceRows) :
        /\ RecordsOfRow(r) # {} <=> ~Blank(SourceRows[r][1])
        /\ \A i \in RecordsOfRow(r) :
             (\A c \in 2..Len(SourceRows[r]) : Blank(SourceRows[r][c]))
             => /\ Records[i].standard_values = <<>>
                /\ Records[i].custom_metadata_values = <<>>
                /\ ~has_values(Records[i])
                /\ \A world \in Worlds :
                     RowOutcomes(Records[i], world)
                       = {[NewRowResult(Records[i]) EXCEPT
                             !.status = SKIPPED]}

\* a row with a value and a blank name is dropped, and the row after it,
\* with a name and nothing else, is kept
C24_Witness ==
    /\ Parsed
    /\ SourceRows = << <<Some("  "), Some(" v "), None, None>>,
                       <<Some(" cust_id "), None, Some(" "), None>> >>
    /\ Records = <<Record(1, "cust_id", <<>>, <<>>)>>

\* the values a record stores, standard and custom metadata alike
StoredValues(record) ==
    {record.standard_values[j][2] : j \in 1..Len(record.standard_values)}
    \cup UNION {{record.custom_metadata_values[s][2][f][2] :
                   f \in 1..Len(record.custom_metadata_values[s][2])} :
                s \in 1..Len(record.custom_metadata_values)}

\* C25: every record has a non-empty trimmed asset_name, every value it
\* stores is non-empty and trimmed, and a custom-metadata set none of whose
\* fields has a value is absent from the record.
C25_NoEmptyValues ==
    Parsed =>
      \A i \in 1..Len(Records) :
        /\ Records[i].asset_name # ""
        /\ strip(Records[i].asset_name) = Records[i].asset_name
        /\ \A v \in StoredValues(Records[i]) : v # "" /\ strip(v) = v
        /\ \A s \in 1..Len(Records[i].custom_metadata_values) :
             Records[i].custom_metadata_values[s][2] # <<>>

\* one row whose only set has blank fields, one row where one field of the
\* set has a value
C25_Witness ==
    /\ Parsed
    /\ SourceRows = << <<Some(" cust_id "), Some(" v "), Some(" "), None>>,
                       <<Some(" cust_id "), None, Some(" "), Some("o")>> >>
    /\ Records
         = <<Record(0, "cust_id", << <<"description", "v">> >>, <<>>),
             Record(1, "cust_id", <<>>,
                    << <<"Ops", << <<"Owner", "o">> >> >> >>)>>

\* C26: the records are in source row order, each carries the ordinal of the
\* row it came from and that row's trimmed name, and every row with a name
\* gives its own record: two rows with the same name give two records.
C26_OrderAndIdentity ==
    Parsed =>
      /\ \A i \in 1..Len(Records) :
           /\ Records[i].row_index \in 0..(Len(SourceRows) - 1)
           /\ ~Blank(SourceRows[Records[i].row_index + 1][1])
           /\ Records[i].asset_name
                = strip(SourceRows[Records[i].row_index + 1][1][1])
      /\ \A i, j \in 1..Len(Records) :
           i < j => Records[i].row_index < Records[j].row_index
      /\ Len(Records)
           = Cardinality({r \in 1..Len(SourceRows) : ~Blank(SourceRows[r][1])})

\* two rows with the same name and different values
C26_Witness ==
    /\ Parsed
    /\ Len(SourceRows) = 2
    /\ Len(Records) = 2
    /\ Records[1].row_index = 0 /\ Records[2].row_index = 1
    /\ Records[1].asset_name = "cust_id" /\ Records[2].asset_name = "cust_id"
    /\ Records[1].standard_values # Records[2].standard_values

\* ======================================================================
\* Properties of the diff and of persistence (specification SpecUpdate)
\* ======================================================================

\* the outcome of the call, the entity as fetched, the values of the record
Outcome == ret[1].value
FetchedAsset == upd[1].asset[1]
StandardValues == op[1].record.standard_values
CmValues == op[1].record.custom_metadata_values
Target == op[1].asset_info.guid
\* the persist call was made and acknowledged; no persist call failed
Acked == \E i \in PersistCalls : calls[i][3] = "ack"
PersistFailed == \E i \in PersistCalls : calls[i][3] = "raise"

\* C27: a certificate value that, lower-cased and trimmed, is not verified,
\* draft or deprecated is ignored: the certificate status of the entity is
\* not changed, "certificate" is not in updated_fields, no error is set, and
\* the other fields of the record are still applied.
C27_UnknownCertificateIgnored ==
    (UpdateDone /\ Fetched /\ Has(StandardValues, "certificate")
       /\ strip(lower(Get(StandardValues, "certificate")))
            \notin {"verified", "draft", "deprecated"})
    => /\ ret[1].kind = "return"
       /\ "certificate" \notin Range(Outcome.updated_fields)
       /\ catalog[Target].certificate_status
            = FetchedAsset.certificate_status
       /\ ~PersistFailed => Outcome.success /\ Outcome.error = None
       /\ (Has(StandardValues, "description") /\ Outcome.success)
          => "description" \in Range(Outcome.updated_fields)
       /\ (Has(StandardValues, "description") /\ Acked)
          => catalog[Target].description = Get(StandardValues, "description")

\* a verified entity, updated with a description and the certificate "bogus"
C27_Witness ==
    /\ UpdateDone /\ Fetched /\ ~op[1].dry_run /\ Acked
    /\ op[1].record.row_index = 6
    /\ FetchedAsset.certificate_status = Some("VERIFIED")
    /\ FetchedAsset.description = "old"
    /\ catalog[Target].certificate_status = Some("VERIFIED")
    /\ catalog[Target].description = "Unique id"
    /\ Outcome.updated_fields = <<"description">>

\* the fields of the record that a declared set does not declare, and the
\* ones it declares, as <<set, field, value>>
CmFields ==
    UNION {{<<CmValues[s][1], CmValues[s][2][f][1], CmValues[s][2][f][2]>> :
              f \in 1..Len(CmValues[s][2])} :
           s \in {t \in 1..Len(CmValues) : Has(CM_DEFS, CmValues[t][1])}}
UndeclaredFields == {x \in CmFields : x[2] \notin Get(CM_DEFS, x[1])}
DeclaredFields == {x \in CmFields : x[2] \in Get(CM_DEFS, x[1])}
\* the value the entity holds for a field of a set, if any
CmValueOf(entity, cm_set, field) ==
    IF /\ Has(entity.business_attributes, cm_set)
       /\ Has(Get(entity.business_attributes, cm_set), field)
    THEN Some(Get(Get(entity.business_attributes, cm_set), field))
    ELSE None

\* C28: a field the custom-metadata set does not declare is skipped: it is
\* not set and not in updated_fields; the other fields of the same set are
\* still set and persisted, and the call succeeds.
C28_UndeclaredFieldSkipped ==
    (UpdateDone /\ Fetched /\ UndeclaredFields # {})
    => /\ ret[1].kind = "return"
       /\ ~PersistFailed => Outcome.success /\ Outcome.error = None
       /\ \A x \in UndeclaredFields :
            /\ (x[1] \o "::" \o x[2]) \notin Range(Outcome.updated_fields)
            /\ CmValueOf(catalog[Target], x[1], x[2]) = None
            /\ \A y \in DeclaredFields :
                 y[1] = x[1] =>
                   /\ Outcome.success
                      => (y[1] \o "::" \o y[2])
                           \in Range(Outcome.updated_fields)
                   /\ (Acked /\ y[1] \notin upd[1].unset)
                      => CmValueOf(catalog[Target], y[1], y[2]) = Some(y[3])

\* the set Data Governance with the field Data Steward and the undeclared
\* field Nope, persisted
C28_Witness ==
    /\ UpdateDone /\ Fetched /\ ~op[1].dry_run /\ Acked
    /\ op[1].record.row_index = 4
    /\ CmValueOf(FetchedAsset, "Data Governance", "Data Steward") = None
    /\ CmValueOf(catalog[Target], "Data Governance", "Data Steward")
         = Some("alice")
    /\ CmValueOf(catalog[Target], "Data Governance", "Nope") = None
    /\ Outcome.success
    /\ Outcome.updated_fields
         = <<"description", "Data Governance::Data Steward">>

\* C29: when the diff touches no field the call returns success = true with
\* empty updated_fields and no error, and makes no persist call, in a dry
\* run and outside it.
C29_EmptyDiffIsNoop ==
    (UpdateDone /\ Fetched /\ upd[1].diff[1].updated_fields = <<>>)
    => /\ ret[1].kind = "return"
       /\ Outcome.success
       /\ Outcome.updated_fields = <<>>
       /\ Outcome.error = None
       /\ PersistCalls = {}
       /\ catalog[Target] = FetchedAsset

\* outside a dry run, a record whose owners are blank and whose certificate
\* is unknown
C29_Witness ==
    /\ UpdateDone /\ Fetched /\ ~op[1].dry_run
    /\ op[1].record.row_index = 3
    /\ has_values(op[1].record)
    /\ Outcome.success
    /\ Outcome.updated_fields = <<>>
    /\ PersistCalls = {}

\* the fields of the custom metadata of an entity, as <<set, field>>
CmFieldsOf(entity) ==
    UNION {{<<entity.business_attributes[s][1],
              entity.business_attributes[s][2][f][1]>> :
              f \in 1..Len(entity.business_attributes[s][2])} :
           s \in 1..Len(entity.business_attributes)}
\* the record specifies the field of the set
Specified(cm_set, field) == \E x \in CmFields : x[1] = cm_set /\ x[2] = field

\* C30: once an update outside a dry run has persisted, every
\* custom-metadata set, and every field of a set the record touches, that
\* the record does not specify has the value it had before the call; only
\* specified fields change or appear.
C30_PersistMergesCm ==
    (UpdateDone /\ Fetched /\ ~op[1].dry_run /\ Acked)
    => /\ \A x \in CmFieldsOf(FetchedAsset) :
            ~Specified(x[1], x[2])
            => CmValueOf(catalog[Target], x[1], x[2])
                 = CmValueOf(FetchedAsset, x[1], x[2])
       /\ \A x \in CmFieldsOf(catalog[Target]) :
            CmValueOf(catalog[Target], x[1], x[2])
              # CmValueOf(FetchedAsset, x[1], x[2])
            => Specified(x[1], x[2])

\* one field of Data Governance is written: the other field of the set and
\* the set Ops keep their values
C30_Witness ==
    /\ UpdateDone /\ Fetched /\ ~op[1].dry_run /\ Acked
    /\ op[1].record.row_index = 4
    /\ CmValueOf(FetchedAsset, "Data Governance", "Data Steward") = None
    /\ CmValueOf(catalog[Target], "Data Governance", "Data Steward")
         = Some("alice")
    /\ CmValueOf(catalog[Target], "Data Governance", "Review Date")
         = Some("2020")
    /\ CmValueOf(catalog[Target], "Ops", "Tier") = Some("1")

\* the owners a value names: its parts between commas, trimmed, the empty
\* ones dropped
Parts(value) == {strip(x) : x \in Range(split(value, ","))} \ {""}
OwnerRoles == {"user_owners", "group_owners"}
OwnersOf(entity, role) ==
    IF role = "user_owners" THEN entity.owner_users ELSE entity.owner_groups

\* C31 as stated: whenever a record carries user_owners (resp. group_owners),
\* the set of its trimmed non-empty parts replaces the owning users (resp.
\* groups) of the entity and the field is listed in updated_fields.
C31_OwnersAsStated ==
    \A role \in OwnerRoles :
      (UpdateDone /\ Fetched /\ Has(StandardValues, role) /\ ~PersistFailed)
      => /\ role \in Range(Outcome.updated_fields)
         /\ ~op[1].dry_run
            => OwnersOf(catalog[Target], role)
                 = Parts(Get(StandardValues, role))

\* C31: a user_owners (resp. group_owners) value is split on ',', each part
\* trimmed and the empty parts dropped; when a part remains, the set of the
\* parts replaces the owning users (resp. groups) of the entity and the field
\* is listed in updated_fields; when none remains, the owners are left as
\* they were and the field is not listed.
C31_OwnersReplaced ==
    \A role \in OwnerRoles :
      (UpdateDone /\ Fetched /\ Has(StandardValues, role))
      => LET owners == Parts(Get(StandardValues, role))
         IN  IF owners # {}
             THEN /\ Outcome.success
                     => role \in Range(Outcome.updated_fields)
                  /\ Acked => OwnersOf(catalog[Target], role) = owners
                  /\ ~PersistFailed => Outcome.success
             ELSE /\ role \notin Range(Outcome.updated_fields)
                  /\ OwnersOf(catalog[Target], role)
                       = OwnersOf(FetchedAsset, role)

\* a record whose user_owners names nobody and whose group_owners names two
\* groups, persisted on an entity that had owners of both kinds
C31_Witness ==
    /\ UpdateDone /\ Fetched /\ ~op[1].dry_run /\ Acked
    /\ op[1].record.row_index = 7
    /\ FetchedAsset.owner_users = {"zed"}
    /\ FetchedAsset.owner_groups = {"ops"}
    /\ catalog[Target].owner_users = {"zed"}
    /\ catalog[Target].owner_groups = {"eng", "data"}
    /\ Outcome.updated_fields = <<"group_owners">>

\* the sets of the record that could not be loaded, and the ones that were
\* loaded and could not be set on the updater
NotLoaded == {CmValues[s][1] : s \in 1..Len(CmValues)} \ Keys(CM_DEFS)
NotSet ==
    {calls[i][2] : i \in {j \in CallsOf({"set_custom_metadata"}) :
                            calls[j][3] = "raise"}}

\* C40: in every outcome of update_asset_metadata, an outcome with
\* success = false has empty updated_fields, and no field of a
\* custom-metadata set that could not be loaded or could not be set is
\* listed in updated_fields.
C40_OnlyChangedFieldsListed ==
    (UpdateDone /\ ret[1].kind = "return")
    => /\ ~Outcome.success => Outcome.updated_fields = <<>>
       /\ \A s \in 1..Len(CmValues) :
            CmValues[s][1] \in NotLoaded \cup NotSet
            => \A f \in 1..Len(CmValues[s][2]) :
                 (CmValues[s][1] \o "::" \o CmValues[s][2][f][1])
                   \notin Range(Outcome.updated_fields)

\* has_updates was called on the mapping, and what it returned
HasUpdatesCalled == Classified /\ parse[1].has_updates # None
HasUpdates == parse[1].has_updates[1]

\* C34: has_updates returns true if and only if the mapping holds at least
\* one standard field or at least one custom-metadata set; a mapping with
\* only a search column, and possibly unrecognized headers, returns false.
C34_HasUpdates ==
    HasUpdatesCalled
    => /\ HasUpdates <=> (\/ Keys(Mapping.standard_fields) # {}
                          \/ Keys(Mapping.custom_metadata) # {})
       /\ (\A h \in Range(H) :
             \/ h \in Range(Mapping.unrecognized_columns)
             \/ Mapping.search_column = h)
          => ~HasUpdates

\* has_updates is true of a mapping with a custom-metadata set and no
\* standard field
C34_Witness ==
    /\ HasUpdatesCalled
    /\ HasUpdates
    /\ Mapping.standard_fields = <<>>
    /\ Keys(Mapping.custom_metadata) = {"A"}
    /\ Mapping.search_column = "name"

\* ======================================================================
\* Properties of the loop over the matches (specification Spec)
\* ======================================================================

\* a process_single_row call, running or ended
RowCall == op # None /\ op[1].name = "process_single_row"
\* the updater calls that have ended, in the order they ended
IsUpdated(c) == c[1] = "updated"
UpdatedSeq == SelectSeq(calls, IsUpdated)
\* the number of updater calls that had ended before the i-th call of the log
EndedBefore(i) == Cardinality({j \in CallsOf({"updated"}) : j < i})

\* C35: process_single_row invokes the updater once per match, one after
\* the other, in the order the resolution returned them; an update that
\* fails is counted as one failed match and the updater is still invoked
\* for every later match.
C35_OncePerMatchInOrder ==
    /\ (RowCall /\ Resolved)
       => /\ Len(UpdatedSeq) <= Len(Matches)
          /\ \A j \in 1..Len(UpdatedSeq) :
               UpdatedSeq[j][2] = Matches[j].guid
          /\ \A i \in CallsOf({"fetch", "save", "save_merging_cm"}) :
               /\ EndedBefore(i) < Len(Matches)
               /\ calls[i][2] = Matches[EndedBefore(i) + 1].guid
    /\ (RowDone /\ Resolved)
       => /\ Len(UpdatedSeq) = Len(Matches)
          /\ Succeeded + Failed = Len(Matches)
          /\ RowResult.assets_updated = Succeeded
          /\ Failed > 0 => RowResult.status \in {FAILED, PARTIAL}

\* three matches: the update of the first fails, the two after it are made
\* and succeed
C35_Witness ==
    /\ RowDone /\ Resolved /\ Len(Matches) = 3
    /\ Len(UpdatedSeq) = 3
    /\ UpdatedSeq[1][3] = "failure"
    /\ UpdatedSeq[2][3] = "success"
    /\ UpdatedSeq[3][3] = "success"
    /\ RowResult.status = PARTIAL

\* C36: in every row outcome assets_found is the number of matches the
\* resolution returned and assets_updated the number of updater calls that
\* returned success, for FAILED and PARTIAL rows too; so
\* 0 <= assets_updated <= assets_found, and both are 0 for SKIPPED and
\* NOT_FOUND rows and for rows whose resolver raised.
C36_CountsAlwaysPopulated ==
    RowDone
    => /\ Resolved => /\ RowResult.assets_found = Len(Matches)
                      /\ RowResult.assets_updated = Succeeded
       /\ 0 <= RowResult.assets_updated
       /\ RowResult.assets_updated <= RowResult.assets_found
       /\ (\/ RowResult.status \in {SKIPPED, NOT_FOUND}
           \/ ~Resolved)
          => /\ RowResult.assets_found = 0
             /\ RowResult.assets_updated = 0

\* a FAILED row with two matches, neither updated
C36_Witness ==
    /\ RowDone /\ Resolved
    /\ RowResult.status = FAILED
    /\ RowResult.assets_found = 2
    /\ RowResult.assets_updated = 0
    /\ Failed = 2

\* the record carries certificate_message and nothing else
OnlyCertificateMessage ==
    /\ Keys(op[1].record.standard_values) = {"certificate_message"}
    /\ op[1].record.custom_metadata_values = <<>>
\* every asset the updater asked for was fetched
AllFetched == \A i \in CallsOf({"fetch"}) : calls[i][3] = "ok"

InRows == run # None /\ run[1].records # <<>>
           /\ run[1].pc \in {"rows", "returned"}
\* the row indexes of the first n records (of all of them beyond the last)
IndexesOf(n) ==
    [j \in 1..(IF n < Len(run[1].records) THEN n ELSE Len(run[1].records))
       |-> run[1].records[j].row_index]
\* the records whose activity raised on its last attempt
RaisedRows ==
    {j \in 1..Processed : OutcomeOf(run[1].records[j]) = None}
StartsWith(str, prefix) ==
    Len(str) >= Len(prefix) /\ SubSeq(str, 1, Len(prefix)) = prefix
\* Folded is what is left of the outcomes of the first n records, in their
\* order, when the rows that raised are taken out
IsFolded(record) == OutcomeOf(record) # None
FoldedInOrder(n) ==
    LET kept == SelectSeq(SubSeq(run[1].records, 1, n), IsFolded)
    IN  /\ Len(Folded) = Len(kept)
        /\ \A j \in 1..Len(kept) : Folded[j].row_index = kept[j].row_index

\* C37: the run processes the records one at a time in their order: a
\* record is started only when every record before it has been folded,
\* every record is attempted once whatever the earlier outcomes, a record
\* whose activity raises after its retries counts as one failed row with an
\* error line "Row {row_index}: ...", and the outcomes are folded in the
\* order of the records.
C37_RowsInOrder ==
    InRows
    => /\ Processed <= Len(run[1].records)
       /\ run[1].started \in {IndexesOf(Processed),
                              IndexesOf(Processed + 1)}
       /\ Len(run[1].started) = Processed + 1
          => /\ run[1].pc = "rows"
             /\ Processed < Len(run[1].records)
             /\ run[1].attempt > 1
       /\ CounterSum(run[1].result) = Processed
       /\ FoldedInOrder(Processed)
       /\ run[1].result.failed_rows
            = Cardinality(RaisedRows)
              + Cardinality({j \in 1..Len(Folded) :
                               Folded[j].status = FAILED})
       /\ \A j \in RaisedRows :
            \E e \in 1..Len(run[1].result.errors) :
              StartsWith(run[1].result.errors[e],
                         "Row " \o ToString(run[1].records[j].row_index)
                         \o ": ")
       /\ Reported => /\ Processed = Len(run[1].records)
                      /\ run[1].started = IndexesOf(Len(run[1].records))

\* three records: the activity of the second raised on its last attempt, the
\* first and the third were folded
C37_Witness ==
    /\ InRows /\ Reported
    /\ Len(run[1].records) = 3
    /\ RaisedRows = {2}
    /\ Len(Folded) = 2
    /\ Folded[1].row_index = run[1].records[1].row_index
    /\ Folded[2].row_index = run[1].records[3].row_index
    /\ Folded[1].status = FAILED
    /\ Report.failed_rows = 2
    /\ Len(run[1].started) = 3

\* ======================================================================
\* The run over the catalog (specification SpecRun): lines 52-68 and the
\* loop of lines 96-133 of workflow.py, each attempt of process_single_row
\* running against the catalog
\* ======================================================================

\* resolve_dry_run with the flag tested before run_type
resolve_dry_run_FlagFirst(full_config) ==
    IF full_config.dry_run # None
    THEN full_config.dry_run[1]
    ELSE IF full_config.run_type # None /\ full_config.run_type[1] # ""
    THEN lower(full_config.run_type[1]) = "dry"
    ELSE TRUE

\* workflow.py lines 57-68: run_type when it is a non-empty string, else
\* dry_run when it is not None, else a dry run
resolve_dry_run(full_config) ==
    IF full_config.run_type # None /\ full_config.run_type[1] # ""
    THEN lower(full_config.run_type[1]) = "dry"
    ELSE IF full_config.dry_run # None
    THEN full_config.dry_run[1]
    ELSE TRUE

\* workflow.py line 52
asset_types_of(full_config) ==
    IF full_config.asset_types = None THEN <<"Column">>
    ELSE full_config.asset_types[1]

\* the values of run_type and dry_run a configuration comes with; None is a
\* key that is missing
RunTypes == {None, Some(""), Some("dry"), Some("DRY"), Some("live")}
DryRunValues == {None, Some(TRUE), Some(FALSE)}

FullConfig(run_type, dry_run, asset_types) ==
    [run_type |-> run_type, dry_run |-> dry_run, asset_types |-> asset_types]

\* the most records of a run over the catalog
MaxRunRows == 2

\* the records parse_file extracted: a description, a custom-metadata
\* field, a certificate; every one names the assets cust_id
RunRows ==
    << Record(0, "cust_id", << <<"description", "Unique id">> >>, <<>>),
       Record(2, "cust_id", <<>>,
              << <<"Data Governance", << <<"Data Steward", "alice">> >> >> >>),
       Record(3, "cust_id", << <<"certificate", "draft">> >>, <<>>) >>

\* the record lists of up to n records, in the order of the file
RECURSIVE RunFilesFrom(_, _)
RunFilesFrom(k, n) ==
    IF n = 0 \/ k > Len(RunRows) THEN {<<>>}
    ELSE RunFilesFrom(k + 1, n)
         \cup {<<RunRows[k]>> \o rest : rest \in RunFilesFrom(k + 1, n - 1)}
RunFiles == RunFilesFrom(1, MaxRunRows) \ {<<>>}

\* the runs: every way of choosing the mode, over one record, on the
\* Columns (asset_types missing) and on the Table; and runs over the
\* Columns, of every length, in each mode
RunScenarios ==
    {[config |-> FullConfig(run_type, dry_run, asset_types),
      records |-> <<RunRows[1]>>] :
        run_type \in RunTypes, dry_run \in DryRunValues,
        asset_types \in {None, Some(<<"Table">>)}}
    \cup {[config |-> FullConfig(run_type, None, None),
           records |-> records] :
            run_type \in {None, Some("live")}, records \in RunFiles}

InitRun ==
    /\ catalog = InitialCatalog
    /\ client = FALSE
    /\ pc = "idle"
    /\ op = None
    /\ row = None
    /\ find = None
    /\ upd = None
    /\ ret = None
    /\ calls = <<>>
    /\ lastCall = None
    /\ parse = None
    /\ \E scenario \in RunScenarios :
         run = Some([pc |-> "start",
                     config |-> scenario.config,
                     records |-> scenario.records,
                     asset_types |-> <<>>,
                     dry_run |-> None,
                     i |-> 0,
                     attempt |-> 1,
                     lost |-> <<>>,
                     issued |-> {},
                     before |-> InitialCatalog,
                     cancel |-> None,
                     result |-> NewWorkflowResult,
                     ret |-> None])

\* the activity attempt is over: the instance waits for the next one
ActivityEnds ==
    /\ pc' = "idle"
    /\ op' = None
    /\ row' = None
    /\ find' = None
    /\ upd' = None
    /\ ret' = None
    /\ calls' = <<>>

\* what the attempt that is running has done so far: whether it issued a
\* search, a fetch or a persist call, and the entities it has written
IssuedAny ==
    CallsOf({"search", "fetch", "save", "save_merging_cm"}) # {}
PersistedGuids == {calls[i][2] : i \in {j \in PersistCalls :
                                          calls[j][3] = "ack"}}
Issued(w) == IF IssuedAny THEN w.issued \cup {w.i} ELSE w.issued

\* workflow.py lines 52-93, parse_file having returned the records
StartRows ==
    /\ run # None
    /\ run[1].pc = "start"
    /\ LET w == run[1]
       IN  run' = Some([w EXCEPT
                          !.pc = "rows",
                          !.asset_types = asset_types_of(w.config),
                          !.dry_run = Some(resolve_dry_run(w.config)),
                          !.i = 1,
                          !.result = [@ EXCEPT
                                        !.total_rows = Len(w.records)]])
    /\ UNCHANGED <<catalog, client, pc, op, row, find, upd, ret, calls,
                   lastCall, parse>>

\* workflow.py lines 98-104: an attempt of process_single_row starts for
\* the record the loop stands at
ExecuteRow ==
    /\ run # None
    /\ run[1].pc = "rows"
    /\ run[1].i <= Len(run[1].records)
    /\ pc = "idle"
    /\ LET w == run[1]
       IN  /\ ProcessSingleRowCalled(w.records[w.i], w.asset_types,
                                     w.dry_run[1])
           /\ run' = Some([w EXCEPT
                             !.before = IF w.attempt = 1 THEN catalog
                                        ELSE @])
    /\ UNCHANGED <<catalog, client, lastCall, parse>>

\* workflow.py lines 106-127: the attempt returned, its outcome is folded
\* and the loop moves to the next record
RowReturns ==
    /\ run # None
    /\ run[1].pc = "rows"
    /\ pc = "done"
    /\ LET w == run[1]
       IN  run' = Some([w EXCEPT
                          !.result = FoldRow(@, ret[1].value),
                          !.issued = Issued(w),
                          !.i = @ + 1,
                          !.attempt = 1,
                          !.lost = <<>>])
    /\ ActivityEnds
    /\ UNCHANGED <<catalog, client, lastCall, parse>>

\* AttemptFailed with the except of line 129 reached by every failed
\* attempt: the row is counted once for each
AttemptFailed_CountingEachAttempt(w, record) ==
    IF LastAttempt(w)
    THEN [w EXCEPT !.result = RowRaised(@, record, ActivityTaskFailed),
                   !.i = @ + 1, !.attempt = 1, !.lost = <<>>]
    ELSE [w EXCEPT !.result = RowRaised(@, record, ActivityTaskFailed),
                   !.attempt = @ + 1]

\* workflow.py lines 18-24 and 103, then 129-133: an attempt that failed is
\* tried again while attempts remain; the failure of the last one is raised
\* in the workflow, which counts the row as failed and moves on
AttemptFailed(w, record) ==
    IF LastAttempt(w)
    THEN [w EXCEPT !.result = RowRaised(@, record, ActivityTaskFailed),
                   !.i = @ + 1, !.attempt = 1, !.lost = <<>>]
    ELSE [w EXCEPT !.attempt = @ + 1]

\* the engine loses the attempt that is running (start_to_close or
\* heartbeat timeout of lines 101-102), wherever it stands: what it has
\* written to the catalog stays written
AttemptLost ==
    /\ run # None
    /\ run[1].pc = "rows"
    /\ pc # "idle"
    /\ LET w == run[1]
           seen == [w EXCEPT !.issued = Issued(w),
                             !.lost = Append(@, PersistedGuids)]
       IN  run' = Some(AttemptFailed(seen, w.records[w.i]))
    /\ ActivityEnds
    /\ UNCHANGED <<catalog, client, lastCall, parse>>

\* str(e) of the failure the await of line 98 raises for a cancelled activity
ActivityCancelled == "Activity cancelled"

\* the engine grants a cancellation between two rows, before the first
\* attempt of the record the loop stands at. The await of line 98 then
\* raises. An exception that is not an Exception (asyncio.CancelledError)
\* leaves run(); the failure of the cancelled activity, which is an
\* Exception, is caught at line 129 like any other: the row is counted as
\* failed and the loop goes on
Cancel ==
    /\ run # None
    /\ run[1].pc = "rows"
    /\ run[1].i <= Len(run[1].records)
    /\ run[1].attempt = 1
    /\ run[1].cancel = None
    /\ pc = "idle"
    /\ LET w == run[1]
           granted == [w EXCEPT !.cancel = Some([after |-> w.i - 1,
                                                 catalog |-> catalog])]
       IN  \E raised \in {"CancelledError", "ActivityError"} :
             run' = Some(IF raised = "CancelledError"
                         THEN [granted EXCEPT !.pc = "cancelled"]
                         ELSE [granted EXCEPT
                                 !.result = RowRaised(@, w.records[w.i],
                                                      ActivityCancelled),
                                 !.i = @ + 1])
    /\ UNCHANGED <<catalog, client, pc, op, row, find, upd, ret, calls,
                   lastCall, parse>>

\* workflow.py lines 135-140
FinishRun ==
    /\ run # None
    /\ run[1].pc = "rows"
    /\ run[1].i > Len(run[1].records)
    /\ pc = "idle"
    /\ run' = Some(Returns(run[1], run[1].result))
    /\ UNCHANGED <<catalog, client, pc, op, row, find, upd, ret, calls,
                   lastCall, parse>>

\* the steps of the attempt that is running
RowRuns ==
    /\ run # None
    /\ run[1].pc = "rows"
    /\ \/ FindGetClient
       \/ FindSearchType
       \/ FindReturn
       \/ UpdGetClient
       \/ UpdFetch
       \/ UpdPersist

NextRun ==
    \/ StartRows
    \/ ExecuteRow
    \/ RowRuns
    \/ RowReturns
    \/ AttemptLost
    \/ Cancel
    \/ FinishRun

SpecRun == InitRun /\ [][NextRun]_vars

\* ======================================================================
\* Properties of the run over the catalog (specification SpecRun)
\* ======================================================================

\* the mode of the run has been resolved; the run is a preview
ModeResolved == run # None /\ run[1].dry_run # None
Preview == run[1].dry_run[1]

\* C38: if run_type is a non-empty string the run is a preview exactly when
\* run_type lower-cased is "dry", whatever dry_run is; otherwise, if dry_run
\* is supplied its boolean value is used; if neither is supplied the run is
\* a preview. The resolved flag is passed unchanged to every row, and in a
\* run resolved to preview no persist call is issued for any row.
C38_PreviewResolution ==
    ModeResolved
    => LET run_type == run[1].config.run_type
           dry_run == run[1].config.dry_run
       IN  /\ run_type \notin {None, Some("")}
              => (Preview <=> run_type[1] \in {"dry", "Dry", "DRY"})
           /\ (run_type \in {None, Some("")} /\ dry_run # None)
              => Preview = dry_run[1]
           /\ (run_type \in {None, Some("")} /\ dry_run = None)
              => Preview
           /\ op # None => op[1].dry_run = Preview
           /\ upd # None => upd[1].dry_run = Preview
           /\ Preview => /\ PersistCalls = {}
                         /\ pc # "upd_persist"
                         /\ catalog = InitialCatalog

\* run_type "DRY" with dry_run false: the run ended, the row reports its two
\* assets updated and nothing was written
C38_Witness ==
    /\ ModeResolved /\ Reported
    /\ run[1].config.run_type = Some("DRY")
    /\ run[1].config.dry_run = Some(FALSE)
    /\ Preview
    /\ Len(Folded) = 1
    /\ Folded[1].status = SUCCESS
    /\ Folded[1].assets_updated = 2
    /\ catalog = InitialCatalog

\* the entity a complete, successful execution of the row leaves from the
\* entity as it was when the row started
AfterOneExecution(g, record) ==
    Persisted(run[1].before[g],
              ComputeDiff(g, run[1].before[g], record, {}).to_update,
              record)
\* an attempt of the row was lost after it had written to the catalog, and
\* the attempt that followed has returned SUCCESS outside preview, every
\* set it loaded having been staged
RetriedAfterPersist ==
    /\ run # None /\ run[1].pc = "rows" /\ pc = "done"
    /\ \E a \in 1..Len(run[1].lost) : run[1].lost[a] # {}
    /\ ~op[1].dry_run
    /\ RowResult.status = SUCCESS
    /\ NotSet = {}

\* C32: when a row is executed again after an attempt that had persisted
\* some or all of its updates, every matched entity ends as one complete
\* successful execution of the row leaves it, no other entity is touched,
\* and the row is folded into the result once.
C32_RetrySafe ==
    /\ RetriedAfterPersist
       => /\ run[1].attempt \in 2..MaximumAttempts
          /\ \A j \in 1..Len(Matches) :
               catalog[Matches[j].guid]
                 = AfterOneExecution(Matches[j].guid, op[1].record)
          /\ \A g \in Guids :
               catalog[g] \in {run[1].before[g],
                               AfterOneExecution(g, op[1].record)}
    /\ (run # None /\ run[1].pc \in {"rows", "returned"})
       => /\ CounterSum(run[1].result) = Processed
          /\ \A j, k \in 1..Len(Folded) :
               Folded[j].row_index = Folded[k].row_index => j = k
          /\ Len(Folded) <= Processed

\* the first attempt was lost after it had written one of the two Columns,
\* the second after it had written both, and the third returned SUCCESS
C32_Witness ==
    /\ RetriedAfterPersist
    /\ run[1].attempt = 3
    /\ run[1].lost = <<{"g1"}, {"g1", "g2"}>>
    /\ Len(Matches) = 2
    /\ run[1].before = InitialCatalog
    /\ catalog["g1"].description = "Unique id"
    /\ catalog["g2"].description = "Unique id"
    /\ RowResult.assets_updated = 2

\* C33: the rows for which a search, a fetch or a persist call has been
\* issued never lie beyond the record the loop stands at, and only the
\* attempt of that record has calls in flight; once the run is cancelled
\* after row k no call is issued for a row after k, no attempt runs, and the
\* catalog stays as rows 1..k left it.
C33_CancelAtRowBoundary ==
    (run # None /\ run[1].pc \in {"rows", "returned", "cancelled"})
    => /\ \A p \in Issued(run[1]) : p <= run[1].i /\ p <= Len(run[1].records)
       /\ run[1].cancel # None
          => /\ \A p \in Issued(run[1]) : p <= run[1].cancel[1].after
             /\ pc = "idle"
             /\ catalog = run[1].cancel[1].catalog

====
